---- MODULE Spec2Model ----
(***************************************************************************)
(* Verification model of Kode-rs: the streaming completion layer (SSE     *)
(* parser, Anthropic stream handler, Anthropic adapter stream) and the    *)
(* file tools with their read-before-write ledger.                         *)
(*                                                                         *)
(* Strings are sequences of one-character strings, Option<T> is a         *)
(* sequence of length 0 (None) or 1 (Some).                                *)
(***************************************************************************)
EXTENDS Integers, Sequences, FiniteSets, TLC

VARIABLES
    \* ---- SseParser driven chunk by chunk (sse_parser.rs)
    sse_text,        \* the whole SSE text the transport delivers
    sse_pos,         \* number of characters already fed
    sse_parser,      \* SseParser { current_event, line_buffer }
    sse_events,      \* concatenation of the lists returned by parse_chunk
    sse_split,       \* history: [crlf] a chunk boundary fell between CR and LF
    sse_flushed,     \* result of flush(): <<>> before, <<None>> or <<Some(e)>> after
    \* ---- AnthropicStreamHandler fed with chunks (anthropic_stream.rs)
    handler,         \* the handler's fields
    a_ret,           \* result of the last process_chunk: "none", "ok_false", "ok_true", "err"
    a_hist,          \* history per index: what arrived since the last content_block_start
    a_stop,          \* history per index: what content_block_stop did in the last chunk
    a_fed,           \* number of events fed so far
    a_msgs,          \* results of the get_message() calls since the last chunk
    \* ---- AnthropicAdapter::process_stream (anthropic.rs)
    s_pc,            \* "loop", "final", "done"
    s_out,           \* the CompletionChunk items yielded so far
    s_complete,      \* history: process_chunk returned Ok(true)
    \* ---- file tools and ToolContext (tools/)
    fs,              \* path -> [exists, mtime, content] of the working directory
    now,             \* wall clock, milliseconds
    ledger,          \* read_file_timestamps of the caller's ToolContext
    call_ctx,        \* read_file_timestamps of the copy the last call() owned
    last_val,        \* the last validate_input: input, result and what it saw
    last_call,       \* the last call(): input, result and what it saw
    \* ---- tool invocations started by a caller (tools/mod.rs)
    running,         \* slot -> [tool, pc] of the invocations of one context
    ts,              \* one invocation's ToolStream: tool, outcome, items yielded
    \* ---- BashTool and its subprocess (tools/bash.rs)
    bash,            \* the call in progress, the subprocess and the last validation
    \* ---- MemoryRead / MemoryWrite (tools/memory_read.rs, tools/memory_write.rs)
    mem,             \* the directories that exist, the last validation and access
    \* ---- the stream handlers of both dialects, observed (services/streaming/)
    oai,             \* OpenAIStreamHandler's fields
    obs,             \* history: what arrived and what get_message() returned
    \* ---- an SSE text and the same text with inert lines inserted (sse_parser.rs)
    ins,             \* both texts and the events the parser returns for each
    \* ---- flush() at the end of a stream and what follows it (sse_parser.rs)
    fl,              \* the text consumed, the parser, the flush results, the later input
    \* ---- Glob / Grep searches (tools/glob.rs, tools/grep.rs)
    search,          \* the files that match and the output of the last search
    \* ---- ModelAdapterFactory (services/mod.rs)
    factory,         \* the provider tag of the last create() and its result
    \* ---- adapter calls over HTTP (services/anthropic.rs, services/openai.rs)
    net,             \* the last call, what the transport did and what it returned
    \* ---- FileRead with offset and limit (tools/file_read.rs)
    rd,              \* the file, the input and the outcome of the read
    \* ---- AgentRegistry (agents/mod.rs)
    reg,             \* the agent files on disk, the reloads in progress and the registry
    \* ---- BashTool::call and the pipes of its subprocess (tools/bash.rs)
    sub,             \* what the subprocess still writes, the pipes, the call
    \* ---- the response body of a stream, split into byte chunks (anthropic.rs)
    wire,            \* the bytes, the chunks delivered and the items yielded
    \* ---- UrlCache (tools/url_fetcher.rs)
    cache,           \* the entries, the clock and the last lookup and clean-up
    \* ---- the TUI App and its stream tasks (tui/app.rs)
    app              \* the App's fields, the tasks and the event channel

sse_vars == <<sse_text, sse_pos, sse_parser, sse_events, sse_split, sse_flushed>>
a_vars == <<handler, a_ret, a_hist, a_stop, a_fed, a_msgs>>
s_vars == <<s_pc, s_out, s_complete>>
t_vars == <<fs, now, ledger, call_ctx, last_val, last_call>>
x_vars == <<running, ts, bash, mem>>
y_vars == <<oai, obs, ins, fl, search, factory, net>>
z_vars == <<rd, reg, sub, wire, cache, app>>
vars == <<sse_vars, a_vars, s_vars, t_vars, x_vars, y_vars, z_vars>>

None == <<>>
Some(v) == <<v>>

(***************************************************************************)
(* Generic string helpers (Rust str methods used by the code)              *)
(***************************************************************************)
\* str::find(char): 1-based position of the first occurrence, 0 when absent
Find(s, c) ==
    IF \E i \in 1..Len(s) : s[i] = c
    THEN CHOOSE i \in 1..Len(s) : s[i] = c /\ \A j \in 1..(i - 1) : s[j] # c
    ELSE 0

RECURSIVE trim_end_matches(_, _)
trim_end_matches(s, c) ==
    IF s # <<>> /\ s[Len(s)] = c
    THEN trim_end_matches(SubSeq(s, 1, Len(s) - 1), c)
    ELSE s

\* str::strip_prefix(' ').unwrap_or(value)
strip_prefix_space(value) ==
    IF value # <<>> /\ value[1] = " " THEN Tail(value) ELSE value

starts_with(s, p) ==
    Len(s) >= Len(p) /\ SubSeq(s, 1, Len(p)) = p

Digits == {"0", "1", "2", "3", "4", "5", "6", "7", "8", "9"}
DigitVal(c) ==
    CASE c = "0" -> 0 [] c = "1" -> 1 [] c = "2" -> 2 [] c = "3" -> 3 [] c = "4" -> 4
      [] c = "5" -> 5 [] c = "6" -> 6 [] c = "7" -> 7 [] c = "8" -> 8 [] c = "9" -> 9

RECURSIVE DecimalValue(_)
DecimalValue(s) ==
    IF s = <<>> THEN 0
    ELSE 10 * DecimalValue(SubSeq(s, 1, Len(s) - 1)) + DigitVal(s[Len(s)])

\* str::parse::<u64>(): an optional '+', then one or more digits, no overflow
parse_u64(value) ==
    LET digits == IF value # <<>> /\ value[1] = "+" THEN Tail(value) ELSE value
    IN  IF digits # <<>> /\ (\A i \in 1..Len(digits) : digits[i] \in Digits)
           /\ Len(digits) <= 9   \* 32-bit model integers; u64 overflow needs 20 digits
        THEN Some(DecimalValue(digits))
        ELSE None

(***************************************************************************)
(* SseParser (services/streaming/sse_parser.rs)                            *)
(***************************************************************************)
SseEventNew == [event_type |-> None, data |-> <<>>, id |-> None, retry |-> None]

is_complete(e) == e.data # <<>>

SseParserNew == [current_event |-> SseEventNew, line_buffer |-> <<>>]

parse_field(line) ==
    LET colon_pos == Find(line, ":")
    IN  IF colon_pos # 0
        THEN [field |-> SubSeq(line, 1, colon_pos - 1),
              value |-> strip_prefix_space(SubSeq(line, colon_pos + 1, Len(line)))]
        ELSE [field |-> line, value |-> <<>>]

\* A plausible bug: a comment line is taken for the blank line that ends a
\* record.
process_line_comment_ends_record(cur, line) ==
    IF line = <<>> \/ starts_with(line, <<":">>)
    THEN IF is_complete(cur)
         THEN [current_event |-> SseEventNew, out |-> Some(cur)]
         ELSE [current_event |-> cur, out |-> None]
    ELSE LET f == parse_field(line)
             next ==
                 CASE f.field = <<"e", "v", "e", "n", "t">> ->
                          [cur EXCEPT !.event_type = Some(f.value)]
                   [] f.field = <<"d", "a", "t", "a">> ->
                          [cur EXCEPT !.data =
                              (IF cur.data # <<>> THEN cur.data \o <<"\n">> ELSE cur.data)
                                  \o f.value]
                   [] f.field = <<"i", "d">> ->
                          [cur EXCEPT !.id = Some(f.value)]
                   [] f.field = <<"r", "e", "t", "r", "y">> ->
                          IF parse_u64(f.value) # None
                          THEN [cur EXCEPT !.retry = parse_u64(f.value)]
                          ELSE cur
                   [] OTHER -> cur
         IN  [current_event |-> next, out |-> None]

\* process_line: the new current_event and the Option<SseEvent> returned
process_line(cur, line) ==
    IF line = <<>>
    THEN IF is_complete(cur)
         THEN [current_event |-> SseEventNew, out |-> Some(cur)]
         ELSE [current_event |-> cur, out |-> None]
    ELSE IF starts_with(line, <<":">>)
    THEN [current_event |-> cur, out |-> None]
    ELSE LET f == parse_field(line)
             next ==
                 CASE f.field = <<"e", "v", "e", "n", "t">> ->
                          [cur EXCEPT !.event_type = Some(f.value)]
                   [] f.field = <<"d", "a", "t", "a">> ->
                          [cur EXCEPT !.data =
                              (IF cur.data # <<>> THEN cur.data \o <<"\n">> ELSE cur.data)
                                  \o f.value]
                   [] f.field = <<"i", "d">> ->
                          [cur EXCEPT !.id = Some(f.value)]
                   [] f.field = <<"r", "e", "t", "r", "y">> ->
                          IF parse_u64(f.value) # None
                          THEN [cur EXCEPT !.retry = parse_u64(f.value)]
                          ELSE cur
                   [] OTHER -> cur
         IN  [current_event |-> next, out |-> None]

\* the `while let Some(line_end) = line_buffer.find('\n')` loop of parse_chunk
RECURSIVE process_lines(_, _)
process_lines(parser, events) ==
    LET line_end == Find(parser.line_buffer, "\n")
    IN  IF line_end = 0
        THEN [parser |-> parser, events |-> events]
        ELSE LET line == trim_end_matches(SubSeq(parser.line_buffer, 1, line_end - 1), "\r")
                 rest == SubSeq(parser.line_buffer, line_end + 1, Len(parser.line_buffer))
                 r == process_line(parser.current_event, line)
             IN  process_lines([current_event |-> r.current_event, line_buffer |-> rest],
                               events \o r.out)

\* A plausible bug: the chunk is split into lines on its own, and the partial
\* line kept from the previous call is thrown away.
parse_chunk_unbuffered(parser, chunk) ==
    process_lines([parser EXCEPT !.line_buffer = chunk], <<>>)

parse_chunk(parser, chunk) ==
    process_lines([parser EXCEPT !.line_buffer = @ \o chunk], <<>>)

\* flush: the parser afterwards and the Option<SseEvent> returned
flush(parser) ==
    LET cur == IF parser.line_buffer # <<>>
               THEN process_line(parser.current_event, parser.line_buffer).current_event
               ELSE parser.current_event
    IN  IF is_complete(cur)
        THEN [parser |-> [current_event |-> SseEventNew, line_buffer |-> <<>>],
              out |-> Some(cur)]
        ELSE [parser |-> [current_event |-> cur, line_buffer |-> <<>>], out |-> None]

(***************************************************************************)
(* The SSE texts the model feeds: concatenations of wire fragments, cut    *)
(* into chunks at arbitrary character positions.                           *)
(***************************************************************************)
MaxPieces == 3

SsePieces ==
    { <<"d", "a", "t", "a", ":", "x", "\n", "\n">>,
      <<"d", "a", "t", "a", ":", "x", "\n">>,
      <<"d", "a", "t", "a", ":", " ", "y", "\r", "\n">>,
      <<"i", "d", ":", "1", "\n">>,
      <<":", "c">>,
      <<"\n">>,
      <<"\r", "\n">> }

RECURSIVE SseTexts(_)
SseTexts(n) ==
    IF n = 0 THEN {<<>>}
    ELSE LET prev == SseTexts(n - 1)
         IN  prev \cup {t \o p : t \in prev, p \in SsePieces}

SseIdle ==
    /\ sse_text = <<>>
    /\ sse_pos = 0
    /\ sse_parser = SseParserNew
    /\ sse_events = <<>>
    /\ sse_split = [crlf |-> FALSE]
    /\ sse_flushed = <<>>

SseInit ==
    /\ sse_text \in SseTexts(MaxPieces)
    /\ sse_pos = 0
    /\ sse_parser = SseParserNew
    /\ sse_events = <<>>
    /\ sse_split = [crlf |-> FALSE]
    /\ sse_flushed = <<>>

\* one parser.parse_chunk(chunk) call; the chunk is the next n characters
SseFeed(n) ==
    /\ sse_flushed = <<>>
    /\ sse_pos + n <= Len(sse_text)
    /\ LET chunk == SubSeq(sse_text, sse_pos + 1, sse_pos + n)
           r == parse_chunk(sse_parser, chunk)
           cut == sse_pos + n
       IN  /\ sse_parser' = r.parser
           /\ sse_events' = sse_events \o r.events
           /\ sse_pos' = cut
           /\ sse_split' =
                  IF cut < Len(sse_text)
                  THEN [crlf |-> sse_split.crlf
                                   \/ (sse_text[cut] = "\r" /\ sse_text[cut + 1] = "\n")]
                  ELSE sse_split
    /\ UNCHANGED <<sse_text, sse_flushed>>

\* parser.flush() once the transport has delivered everything
SseFlush ==
    /\ sse_flushed = <<>>
    /\ sse_pos = Len(sse_text)
    /\ LET r == flush(sse_parser)
       IN  /\ sse_parser' = r.parser
           /\ sse_flushed' = <<r.out>>
    /\ UNCHANGED <<sse_text, sse_pos, sse_events, sse_split>>

(***************************************************************************)
(* serde_json::from_str::<serde_json::Value> on the argument texts the     *)
(* model uses: JSON whitespace around the value is skipped, "{}" decodes   *)
(* to the empty object, a run of digits to a number, anything else fails.  *)
(***************************************************************************)
EmptyObject == [kind |-> "object", n |-> 0]
JsonNumber(n) == [kind |-> "number", n |-> n]

RECURSIVE trim_start_matches(_, _)
trim_start_matches(s, c) ==
    IF s # <<>> /\ s[1] = c THEN trim_start_matches(Tail(s), c) ELSE s

\* Option<Value>: None when the text is not one JSON value
JsonDecode(s) ==
    LET t == trim_end_matches(trim_start_matches(s, " "), " ")
    IN  IF t # <<>> /\ t[1] = "{" /\ t[Len(t)] = "}" /\ Len(t) >= 2
           /\ trim_start_matches(SubSeq(t, 2, Len(t) - 1), " ") = <<>>
        THEN Some(EmptyObject)
        ELSE IF t # <<>> /\ (\A i \in 1..Len(t) : t[i] \in Digits)
                /\ (Len(t) = 1 \/ t[1] # "0")
        THEN Some(JsonNumber(DecimalValue(t)))
        ELSE None

(***************************************************************************)
(* AnthropicStreamHandler (services/streaming/anthropic_stream.rs)         *)
(***************************************************************************)
TextBlock(t) == [type |-> "text", text |-> t, id |-> <<>>, name |-> <<>>, input |-> EmptyObject]
ThinkingBlock(t) ==
    [type |-> "thinking", text |-> t, id |-> <<>>, name |-> <<>>, input |-> EmptyObject]
ToolUseBlock(id, name, input) ==
    [type |-> "tool_use", text |-> <<>>, id |-> id, name |-> name, input |-> input]

AnthropicStreamHandlerNew ==
    [message_metadata |-> None,
     content_blocks |-> <<>>,
     input_json_buffers |-> <<>>,     \* HashMap<usize, String> as a set-indexed function
     usage |-> [input_tokens |-> 0, output_tokens |-> 0],
     stop_reason |-> None,
     stop_sequence |-> None]

\* HashMap helpers: a map is a function whose domain is the set of keys
MapInsert(m, k, v) == [x \in (DOMAIN m) \cup {k} |-> IF x = k THEN v ELSE m[x]]
MapRemove(m, k) == [x \in (DOMAIN m) \ {k} |-> m[x]]
EmptyMap == [x \in {} |-> <<>>]

\* `while self.content_blocks.len() <= index { push(Text { "" }) }`
RECURSIVE grow_blocks(_, _)
grow_blocks(blocks, index) ==
    IF Len(blocks) <= index
    THEN grow_blocks(Append(blocks, TextBlock(<<>>)), index)
    ELSE blocks

handle_content_block_start(h, index, content_block) ==
    LET grown == grow_blocks(h.content_blocks, index)
    IN  CASE content_block.type = "text" ->
                 [h EXCEPT !.content_blocks =
                     [grown EXCEPT ![index + 1] = TextBlock(content_block.text)]]
          [] content_block.type = "tool_use" ->
                 [h EXCEPT !.content_blocks =
                     [grown EXCEPT ![index + 1] =
                         ToolUseBlock(content_block.id, content_block.name, EmptyObject)],
                           !.input_json_buffers = MapInsert(@, index, <<>>)]
          [] content_block.type = "thinking" ->
                 [h EXCEPT !.content_blocks =
                     [grown EXCEPT ![index + 1] = ThinkingBlock(content_block.text)]]

handle_content_block_delta(h, index, delta) ==
    LET grown == grow_blocks(h.content_blocks, index)
        block == grown[index + 1]
    IN  CASE delta.type = "text_delta" ->
                 [h EXCEPT !.content_blocks =
                     [grown EXCEPT ![index + 1] =
                         IF block.type = "text"
                         THEN TextBlock(block.text \o delta.text)
                         ELSE TextBlock(delta.text)]]
          [] delta.type = "input_json_delta" ->
                 [h EXCEPT !.content_blocks = grown,
                           !.input_json_buffers =
                               MapInsert(@, index,
                                   (IF index \in DOMAIN @ THEN @[index] ELSE <<>>)
                                       \o delta.text)]
          [] delta.type = "thinking_delta" ->
                 [h EXCEPT !.content_blocks =
                     [grown EXCEPT ![index + 1] =
                         IF block.type = "thinking"
                         THEN ThinkingBlock(block.text \o delta.text)
                         ELSE ThinkingBlock(delta.text)]]

\* A plausible bug: an empty or undecodable argument text is defaulted to the
\* empty object (what dialect B does for empty text) instead of failing.
handle_content_block_stop_defaulting(h, index) ==
    IF index \in DOMAIN h.input_json_buffers
    THEN LET json_str == h.input_json_buffers[index]
             removed == [h EXCEPT !.input_json_buffers = MapRemove(@, index)]
             block == h.content_blocks[index + 1]
         IN  IF block.type = "tool_use"
             THEN [h |-> [removed EXCEPT !.content_blocks[index + 1].input =
                             IF JsonDecode(json_str) = None
                             THEN EmptyObject
                             ELSE JsonDecode(json_str)[1]],
                   ok |-> TRUE]
             ELSE [h |-> removed, ok |-> TRUE]
    ELSE [h |-> h, ok |-> TRUE]

\* A plausible bug: the buffer is parsed as it stood when the first fragment
\* arrived (only the first character is decoded).
handle_content_block_stop_first_fragment(h, index) ==
    IF index \in DOMAIN h.input_json_buffers
    THEN LET json_str == IF h.input_json_buffers[index] = <<>> THEN <<>>
                         ELSE <<h.input_json_buffers[index][1]>>
             removed == [h EXCEPT !.input_json_buffers = MapRemove(@, index)]
             block == h.content_blocks[index + 1]
         IN  IF block.type = "tool_use"
             THEN IF JsonDecode(json_str) = None
                  THEN [h |-> removed, ok |-> FALSE]
                  ELSE [h |-> [removed EXCEPT !.content_blocks[index + 1].input =
                                  JsonDecode(json_str)[1]],
                        ok |-> TRUE]
             ELSE [h |-> removed, ok |-> TRUE]
    ELSE [h |-> h, ok |-> TRUE]

\* handle_content_block_stop: the handler afterwards and whether it returned Ok
handle_content_block_stop(h, index) ==
    IF index \in DOMAIN h.input_json_buffers
    THEN LET json_str == h.input_json_buffers[index]
             removed == [h EXCEPT !.input_json_buffers = MapRemove(@, index)]
             block == h.content_blocks[index + 1]
         IN  IF block.type = "tool_use"
             THEN IF JsonDecode(json_str) = None
                  THEN [h |-> removed, ok |-> FALSE]
                  ELSE [h |-> [removed EXCEPT !.content_blocks[index + 1].input =
                                  JsonDecode(json_str)[1]],
                        ok |-> TRUE]
             ELSE [h |-> removed, ok |-> TRUE]
    ELSE [h |-> h, ok |-> TRUE]

\* process_event: the handler afterwards and the Result<bool>:
\* "false" = Ok(false), "true" = Ok(true), "err" = Err(_)
process_event(h, ev) ==
    CASE ev.type = "malformed" -> [h |-> h, res |-> "err"]
      [] ev.type = "message_start" ->
             [h |-> [h EXCEPT !.message_metadata = Some(ev.message),
                              !.usage = ev.message.usage],
              res |-> "false"]
      [] ev.type = "content_block_start" ->
             [h |-> handle_content_block_start(h, ev.index, ev.content_block),
              res |-> "false"]
      [] ev.type = "content_block_delta" ->
             [h |-> handle_content_block_delta(h, ev.index, ev.delta), res |-> "false"]
      [] ev.type = "content_block_stop" ->
             LET r == handle_content_block_stop(h, ev.index)
             IN  [h |-> r.h, res |-> IF r.ok THEN "false" ELSE "err"]
      [] ev.type = "message_delta" ->
             LET h1 == IF ev.stop_reason # None
                       THEN [h EXCEPT !.stop_reason = ev.stop_reason] ELSE h
                 h2 == IF ev.stop_sequence # None
                       THEN [h1 EXCEPT !.stop_sequence = ev.stop_sequence] ELSE h1
                 h3 == IF ev.usage # None /\ ev.usage[1] # None
                       THEN [h2 EXCEPT !.usage.output_tokens = ev.usage[1][1]] ELSE h2
             IN  [h |-> h3, res |-> "false"]
      [] ev.type = "message_stop" ->
             [h |-> [h EXCEPT !.input_json_buffers = EmptyMap], res |-> "true"]
      [] ev.type = "ping" -> [h |-> h, res |-> "false"]
      [] ev.type = "error" -> [h |-> h, res |-> "err"]

\* process_chunk on the events parse_chunk returned: the `for event in events`
\* loop, left at the first Ok(true) or Err
RECURSIVE process_chunk(_, _)
process_chunk(h, events) ==
    IF events = <<>> THEN [h |-> h, res |-> "false"]
    ELSE LET r == process_event(h, Head(events))
         IN  IF r.res = "false" THEN process_chunk(r.h, Tail(events)) ELSE r

\* A plausible bug: a message is assembled although no message_start arrived.
get_message_default_metadata(h, uuid1, uuid2) ==
    Some([message |-> [role |-> "assistant",
                       content |-> h.content_blocks,
                       uuid |-> Some(uuid1)],
          uuid |-> uuid2])

\* get_message with the two Uuid::new_v4() values it draws: Option<AssistantMessage>
get_message(h, uuid1, uuid2) ==
    IF h.message_metadata = None THEN None
    ELSE Some([message |-> [role |-> "assistant",
                            content |-> h.content_blocks,
                            uuid |-> Some(uuid1)],
               uuid |-> uuid2])

get_current_content(h) == h.content_blocks
get_stop_reason(h) == h.stop_reason
get_usage(h) == h.usage

(***************************************************************************)
(* The events the provider may send (the decoded AnthropicStreamEvent of   *)
(* one SSE record; "malformed" is a record whose data serde cannot decode) *)
(***************************************************************************)
MaxIndex == 1
MaxEvents == 4
NumUuids == 2

Indices == 0..MaxIndex
Uuids == 1..NumUuids
JsonFragments == { <<"1">>, <<" ">> }

MessageStartEvents ==
    { [type |-> "message_start",
       message |-> [id |-> "msg_1", usage |-> [input_tokens |-> 10, output_tokens |-> 0]]] }

ContentBlockStartEvents ==
    { [type |-> "content_block_start", index |-> i, content_block |-> cb] :
        i \in Indices,
        cb \in { [type |-> "text", text |-> <<>>, id |-> <<>>, name |-> <<>>],
                 [type |-> "tool_use", text |-> <<>>, id |-> <<"t">>, name |-> <<"n">>],
                 [type |-> "thinking", text |-> <<>>, id |-> <<>>, name |-> <<>>] } }

ContentBlockDeltaEvents ==
    { [type |-> "content_block_delta", index |-> i, delta |-> d] :
        i \in Indices,
        d \in { [type |-> "text_delta", text |-> <<"a">>],
                [type |-> "thinking_delta", text |-> <<"b">>] }
              \cup { [type |-> "input_json_delta", text |-> f] : f \in JsonFragments } }

ContentBlockStopEvents ==
    { [type |-> "content_block_stop", index |-> i] : i \in Indices }

MessageDeltaEvents ==
    { [type |-> "message_delta", stop_reason |-> r, stop_sequence |-> q, usage |-> u] :
        <<r, q, u>> \in { <<Some("end_turn"), Some("seq"), Some(Some(7))>>,
                          <<None, None, Some(None)>>,
                          <<None, None, None>> } }

OtherEvents ==
    { [type |-> "message_stop"], [type |-> "ping"], [type |-> "error"],
      [type |-> "malformed"] }

StreamEvents ==
    MessageStartEvents \cup ContentBlockStartEvents \cup ContentBlockDeltaEvents
        \cup ContentBlockStopEvents \cup MessageDeltaEvents \cup OtherEvents

\* what one network chunk may carry: one complete record, or two of which the
\* first may end the loop of process_chunk and the second addresses a block
StreamChunks ==
    { <<e>> : e \in StreamEvents }
        \cup ((ContentBlockStopEvents \cup OtherEvents)
                  \X (ContentBlockDeltaEvents \cup ContentBlockStopEvents))

(***************************************************************************)
(* History of what arrived per index, kept beside the handler              *)
(***************************************************************************)
HistNew == [tracked |-> FALSE, text |-> <<>>, others |-> FALSE]
StopNew ==
    [seen |-> FALSE, text |-> <<>>, ok |-> FALSE, input |-> EmptyObject, others |-> FALSE]

\* the history after `ev` was processed with result `res`, leaving handler `h`
HistStep(g, ev, res, h) ==
    LET touchOthers(hist, i) ==
            [j \in Indices |-> IF j # i /\ hist[j].tracked
                               THEN [hist[j] EXCEPT !.others = TRUE] ELSE hist[j]]
    IN  CASE ev.type \in {"message_stop", "error", "malformed"} ->
                 [g EXCEPT !.hist = [j \in Indices |-> HistNew]]
          [] ev.type = "content_block_start" ->
                 [g EXCEPT !.hist =
                     [touchOthers(g.hist, ev.index) EXCEPT ![ev.index] =
                         IF ev.content_block.type = "tool_use"
                         THEN [HistNew EXCEPT !.tracked = TRUE]
                         ELSE HistNew]]
          [] ev.type = "content_block_delta" ->
                 [g EXCEPT !.hist =
                     [touchOthers(g.hist, ev.index) EXCEPT ![ev.index] =
                         IF ev.delta.type = "input_json_delta"
                         THEN IF @.tracked THEN [@ EXCEPT !.text = @ \o ev.delta.text] ELSE @
                         ELSE HistNew]]
          [] ev.type = "content_block_stop" ->
                 [hist |-> [j \in Indices |->
                               IF res = "err" \/ j = ev.index THEN HistNew
                               ELSE touchOthers(g.hist, ev.index)[j]],
                  stop |-> IF g.hist[ev.index].tracked
                           THEN [g.stop EXCEPT ![ev.index] =
                                    [seen |-> TRUE,
                                     text |-> g.hist[ev.index].text,
                                     ok |-> res = "false",
                                     input |-> h.content_blocks[ev.index + 1].input,
                                     others |-> g.hist[ev.index].others]]
                           ELSE g.stop]
          [] OTHER -> g

\* the history after process_chunk(h, events): the events it processed are
\* those up to the first one that did not return Ok(false)
RECURSIVE ChunkHistory(_, _, _)
ChunkHistory(h, g, events) ==
    IF events = <<>> THEN g
    ELSE LET r == process_event(h, Head(events))
             g1 == HistStep(g, Head(events), r.res, r.h)
         IN  IF r.res = "false" THEN ChunkHistory(r.h, g1, Tail(events)) ELSE g1

RetName(res) ==
    CASE res = "false" -> "ok_false" [] res = "true" -> "ok_true" [] res = "err" -> "err"

AIdle ==
    /\ handler = AnthropicStreamHandlerNew
    /\ a_ret = "none"
    /\ a_hist = [i \in Indices |-> HistNew]
    /\ a_stop = [i \in Indices |-> StopNew]
    /\ a_fed = 0
    /\ a_msgs = <<>>

\* handler.process_chunk(chunk), the chunk carrying the records `events`
AFeed(events) ==
    /\ a_fed + Len(events) <= MaxEvents
    /\ LET r == process_chunk(handler, events)
           g == ChunkHistory(handler,
                             [hist |-> a_hist, stop |-> [i \in Indices |-> StopNew]],
                             events)
       IN  /\ handler' = r.h
           /\ a_ret' = RetName(r.res)
           /\ a_hist' = g.hist
           /\ a_stop' = g.stop
    /\ a_fed' = a_fed + Len(events)
    /\ a_msgs' = <<>>

\* handler.get_message() after the stream is complete, at most twice in a row
AGetMessage ==
    /\ a_ret = "ok_true"
    /\ Len(a_msgs) < 2
    /\ \E u1 \in Uuids, u2 \in Uuids :
           a_msgs' = Append(a_msgs, get_message(handler, u1, u2))
    /\ UNCHANGED <<handler, a_ret, a_hist, a_stop, a_fed>>

(***************************************************************************)
(* OpenAIStreamHandler (services/streaming/openai_stream.rs). An event is  *)
(* the decoded OpenAIStreamChunk of one SSE record, the "[DONE]" marker,   *)
(* or "malformed": a record whose data serde cannot decode (a chunk        *)
(* without id or model is one).                                            *)
(***************************************************************************)
OpenAIStreamHandlerNew ==
    [id |-> None, model |-> None, created |-> None, text_content |-> <<>>,
     tool_calls |-> EmptyMap, thinking_content |-> None, usage |-> None,
     finish_reason |-> None]

\* A plausible bug: a fragment replaces the arguments received so far.
process_tool_call_delta_overwriting(h, delta) ==
    LET builder == IF delta.index \in DOMAIN h.tool_calls THEN h.tool_calls[delta.index]
                   ELSE [id |-> <<>>, name |-> <<>>, arguments |-> <<>>]
        function == IF delta.function = None THEN [name |-> None, arguments |-> None]
                    ELSE delta.function[1]
    IN  [h EXCEPT !.tool_calls = MapInsert(@, delta.index,
            [id |-> IF delta.id # None THEN delta.id[1] ELSE builder.id,
             name |-> IF function.name # None THEN function.name[1] ELSE builder.name,
             arguments |-> IF function.arguments # None THEN function.arguments[1]
                           ELSE builder.arguments])]

process_tool_call_delta(h, delta) ==
    LET builder == IF delta.index \in DOMAIN h.tool_calls THEN h.tool_calls[delta.index]
                   ELSE [id |-> <<>>, name |-> <<>>, arguments |-> <<>>]
        function == IF delta.function = None THEN [name |-> None, arguments |-> None]
                    ELSE delta.function[1]
    IN  [h EXCEPT !.tool_calls = MapInsert(@, delta.index,
            [id |-> IF delta.id # None THEN delta.id[1] ELSE builder.id,
             name |-> IF function.name # None THEN function.name[1] ELSE builder.name,
             arguments |-> IF function.arguments # None
                           THEN builder.arguments \o function.arguments[1]
                           ELSE builder.arguments])]

\* `for tool_delta in tool_call_deltas { self.process_tool_call_delta(..)? }`
RECURSIVE process_tool_call_deltas(_, _)
process_tool_call_deltas(h, deltas) ==
    IF deltas = <<>> THEN h
    ELSE process_tool_call_deltas(process_tool_call_delta(h, Head(deltas)), Tail(deltas))

\* OpenAIStreamHandler::process_event: the handler afterwards and whether it
\* returned Ok
OpenAI_process_event(h, ev) ==
    IF ev.type = "malformed" THEN [h |-> h, ok |-> FALSE]
    ELSE LET h1 == [h EXCEPT !.id = IF @ = None THEN Some(ev.id) ELSE @,
                             !.model = IF @ = None THEN Some(ev.model) ELSE @,
                             !.created = IF @ = None THEN Some(ev.created) ELSE @,
                             !.usage = IF ev.usage # None THEN ev.usage ELSE @]
         IN  IF ev.choices = <<>> THEN [h |-> h1, ok |-> TRUE]
             ELSE LET choice == ev.choices[1]
                      delta == choice.delta
                      h2 == IF delta.content # None
                            THEN [h1 EXCEPT !.text_content = @ \o delta.content[1]] ELSE h1
                      h3 == IF delta.reasoning # None
                            THEN [h2 EXCEPT !.thinking_content =
                                     Some((IF @ = None THEN <<>> ELSE @[1])
                                              \o delta.reasoning[1])]
                            ELSE h2
                      h4 == IF delta.tool_calls # None
                            THEN process_tool_call_deltas(h3, delta.tool_calls[1]) ELSE h3
                      h5 == IF choice.finish_reason # None
                            THEN [h4 EXCEPT !.finish_reason = choice.finish_reason] ELSE h4
                  IN  [h |-> h5, ok |-> TRUE]

\* OpenAIStreamHandler::process_chunk on the events parse_chunk returned: left
\* at the "[DONE]" marker with Ok(true) or at the first Err
RECURSIVE OpenAI_process_chunk(_, _)
OpenAI_process_chunk(h, events) ==
    IF events = <<>> THEN [h |-> h, res |-> "false"]
    ELSE IF Head(events).type = "done" THEN [h |-> h, res |-> "true"]
    ELSE LET r == OpenAI_process_event(h, Head(events))
         IN  IF r.ok THEN OpenAI_process_chunk(r.h, Tail(events))
             ELSE [h |-> r.h, res |-> "err"]

\* the ToolUse blocks of the tool calls with index >= from, in index order:
\* None when the arguments of one of them do not decode
RECURSIVE tool_use_blocks(_, _)
tool_use_blocks(tool_calls, from) ==
    IF \A i \in DOMAIN tool_calls : i < from THEN Some(<<>>)
    ELSE LET index == CHOOSE i \in DOMAIN tool_calls :
                          i >= from /\ \A j \in DOMAIN tool_calls : j >= from => i <= j
             builder == tool_calls[index]
             input == IF builder.arguments = <<>> THEN Some(EmptyObject)
                      ELSE JsonDecode(builder.arguments)
             rest == tool_use_blocks(tool_calls, index + 1)
         IN  IF input = None \/ rest = None THEN None
             ELSE Some(<<ToolUseBlock(builder.id, builder.name, input[1])>> \o rest[1])

\* OpenAIStreamHandler::get_message with the two Uuid::new_v4() values it
\* draws: Option<AssistantMessage>, None for Err
OpenAI_get_message(h, uuid1, uuid2) ==
    LET text == IF h.text_content # <<>> THEN <<TextBlock(h.text_content)>> ELSE <<>>
        thinking == IF h.thinking_content # None
                    THEN <<ThinkingBlock(h.thinking_content[1])>> ELSE <<>>
        tools == tool_use_blocks(h.tool_calls, 0)
    IN  IF tools = None THEN None
        ELSE IF h.id = None THEN None
        ELSE IF h.model = None THEN None
        ELSE Some([message |-> [role |-> "assistant",
                                content |-> text \o thinking \o tools[1],
                                uuid |-> Some(uuid1)],
                   uuid |-> uuid2])

(***************************************************************************)
(* One stream handler of either dialect fed chunk by chunk, with the       *)
(* history of what the provider sent kept beside it.                       *)
(***************************************************************************)
MaxChunks == 3

OpenAIChunk(delta, finish_reason) ==
    [type |-> "chunk", id |-> "chatcmpl-1", model |-> "m", created |-> 1, usage |-> None,
     choices |-> <<[delta |-> delta, finish_reason |-> finish_reason]>>]

OpenAIDelta(content, reasoning, tool_calls) ==
    [content |-> content, reasoning |-> reasoning, tool_calls |-> tool_calls]

ToolCallDeltas ==
    { [index |-> i, id |-> Some(<<"t">>),
       function |-> Some([name |-> Some(<<"n">>), arguments |-> Some(<<>>)])] : i \in {0, 1} }
        \cup { [index |-> i, id |-> None,
                function |-> Some([name |-> None, arguments |-> Some(f)])] :
                  i \in {0, 1}, f \in JsonFragments }
        \cup { [index |-> 1, id |-> None, function |-> None] }

OpenAIEvents ==
    { OpenAIChunk(OpenAIDelta(Some(<<"a">>), None, None), None),
      OpenAIChunk(OpenAIDelta(None, Some(<<"b">>), None), None),
      OpenAIChunk(OpenAIDelta(None, None, None), Some("stop")),
      [type |-> "done"], [type |-> "malformed"] }
        \cup { OpenAIChunk(OpenAIDelta(None, None, Some(<<d>>)), None) : d \in ToolCallDeltas }

\* one record per network chunk, or a record behind the one that ends the loop
OpenAIChunks ==
    { <<e>> : e \in OpenAIEvents }
        \cup { <<e, OpenAIChunk(OpenAIDelta(Some(<<"a">>), None, None), None)>> :
                 e \in { [type |-> "done"], [type |-> "malformed"] } }

AnthropicEvents ==
    MessageStartEvents \cup MessageDeltaEvents \cup OtherEvents
        \cup { [type |-> "message_delta", stop_reason |-> Some("max_tokens"),
                stop_sequence |-> None, usage |-> Some(Some(3))] }
        \cup { e \in ContentBlockStartEvents :
                 <<e.index, e.content_block.type>> \in {<<0, "text">>, <<1, "tool_use">>} }
        \cup { e \in ContentBlockDeltaEvents :
                 <<e.index, e.delta.type>> \in {<<0, "text_delta">>, <<0, "thinking_delta">>} }

AnthropicChunks ==
    { <<e>> : e \in AnthropicEvents }
        \cup { <<e, s>> : e \in { [type |-> "message_stop"], [type |-> "malformed"] },
                          s \in MessageStartEvents }

ObsNew(dialect) ==
    [dialect |-> dialect,
     fed |-> 0,               \* chunks fed
     ret |-> "none",          \* result of the last process_chunk
     msg |-> None,            \* Some(result of get_message()) since the last chunk
     arrived |-> FALSE,       \* a record with metadata was in a chunk fed
     metadata |-> FALSE,      \* a record with metadata was processed
     arrival |-> <<>>,        \* B: kinds of content in the order they first arrived
     args |-> EmptyMap,       \* B: tool index -> argument fragments concatenated
     started |-> EmptyMap,    \* A: index -> kind of the block the provider sent
     seeded |-> None,         \* A: input_tokens of the last message_start
     last_delta |-> None]     \* A: the last message_delta since that message_start

\* the history after the handler processed the record `ev`
ObsStep(o, ev) ==
    LET first(hist, kind) == IF \E k \in 1..Len(hist) : hist[k] = kind THEN hist
                             ELSE Append(hist, kind)
        delta == ev.choices[1].delta
        tool == delta.tool_calls[1][1]
    IN  CASE ev.type = "message_start" ->
                 [o EXCEPT !.metadata = TRUE,
                           !.seeded = Some(ev.message.usage.input_tokens),
                           !.last_delta = None]
          [] ev.type = "message_delta" -> [o EXCEPT !.last_delta = Some(ev)]
          [] ev.type = "content_block_start" ->
                 [o EXCEPT !.started = MapInsert(@, ev.index, ev.content_block.type)]
          [] ev.type = "content_block_delta" /\ ev.delta.type = "text_delta" ->
                 [o EXCEPT !.started = MapInsert(@, ev.index, "text")]
          [] ev.type = "content_block_delta" /\ ev.delta.type = "thinking_delta" ->
                 [o EXCEPT !.started = MapInsert(@, ev.index, "thinking")]
          [] ev.type = "chunk" /\ delta.content # None ->
                 [o EXCEPT !.metadata = TRUE, !.arrival = first(@, "text")]
          [] ev.type = "chunk" /\ delta.reasoning # None ->
                 [o EXCEPT !.metadata = TRUE, !.arrival = first(@, "thinking")]
          [] ev.type = "chunk" /\ delta.tool_calls # None ->
                 [o EXCEPT !.metadata = TRUE,
                           !.arrival = first(@, "tool_use"),
                           !.args = MapInsert(@, tool.index,
                               (IF tool.index \in DOMAIN @ THEN @[tool.index] ELSE <<>>)
                                 \o (IF tool.function # None /\ tool.function[1].arguments # None
                                     THEN tool.function[1].arguments[1] ELSE <<>>))]
          [] ev.type = "chunk" /\ delta.content = None /\ delta.reasoning = None
                 /\ delta.tool_calls = None ->
                 [o EXCEPT !.metadata = TRUE]
          [] OTHER -> o

\* the history after process_chunk: the records it processed are those before
\* the one that ended its loop
RECURSIVE ObsChunk(_, _, _)
ObsChunk(h, o, events) ==
    IF events = <<>> THEN o
    ELSE IF o.dialect = "A"
    THEN LET r == process_event(h, Head(events))
         IN  IF r.res = "false"
             THEN ObsChunk(r.h, ObsStep(o, Head(events)), Tail(events))
             ELSE o
    ELSE IF Head(events).type \in {"done", "malformed"} THEN o
    ELSE ObsChunk(h, ObsStep(o, Head(events)), Tail(events))

ObsInit ==
    /\ \E dialect \in {"A", "B"} : obs = ObsNew(dialect)
    /\ oai = OpenAIStreamHandlerNew

\* handler.process_chunk(chunk) of the handler under observation
ObsFeed(events) ==
    /\ obs.fed < MaxChunks
    /\ IF obs.dialect = "A"
       THEN LET r == process_chunk(handler, events)
            IN  /\ handler' = r.h
                /\ obs' = [ObsChunk(handler, obs, events) EXCEPT
                              !.fed = @ + 1, !.ret = RetName(r.res), !.msg = None,
                              !.arrived = @ \/ \E k \in 1..Len(events) :
                                                   events[k].type = "message_start"]
                /\ UNCHANGED oai
       ELSE LET r == OpenAI_process_chunk(oai, events)
            IN  /\ oai' = r.h
                /\ obs' = [ObsChunk(oai, obs, events) EXCEPT
                              !.fed = @ + 1, !.ret = RetName(r.res), !.msg = None,
                              !.arrived = @ \/ \E k \in 1..Len(events) :
                                                   events[k].type = "chunk"]
                /\ UNCHANGED handler
    /\ UNCHANGED <<a_ret, a_hist, a_stop, a_fed, a_msgs>>

\* handler.get_message(), at any time: the content of the message, or None
ObsGetMessage ==
    /\ obs.msg = None
    /\ \E uuid1 \in Uuids, uuid2 \in Uuids :
          LET r == IF obs.dialect = "A" THEN get_message(handler, uuid1, uuid2)
                   ELSE OpenAI_get_message(oai, uuid1, uuid2)
          IN  obs' = [obs EXCEPT !.msg = Some(IF r = None THEN None
                                              ELSE Some(r[1].message.content))]
    /\ UNCHANGED <<a_vars, oai>>

(***************************************************************************)
(* AnthropicAdapter::process_stream (services/anthropic.rs)                *)
(***************************************************************************)
ErrorItem(kind) == [type |-> "Error", value |-> kind]

\* the items the `for block in &assistant_message.message.content` loop yields
RECURSIVE BlockItems(_)
BlockItems(blocks) ==
    IF blocks = <<>> THEN <<>>
    ELSE LET b == Head(blocks)
             item ==
                 CASE b.type = "text" -> <<[type |-> "TextDelta", value |-> b.text]>>
                   [] b.type = "thinking" -> <<[type |-> "ThinkingDelta", value |-> b.text]>>
                   [] b.type = "tool_use" ->
                          <<[type |-> "ToolUseComplete",
                             value |-> [id |-> b.id, name |-> b.name, input |-> b.input]]>>
                   [] OTHER -> <<>>
         IN  item \o BlockItems(Tail(blocks))

DoneItem(h) ==
    [type |-> "Done",
     value |-> [stop_reason |-> IF get_stop_reason(h) = None THEN "end_turn"
                                ELSE get_stop_reason(h)[1],
                usage |-> Some(get_usage(h))]]

SIdle ==
    /\ s_pc = "idle"
    /\ s_out = <<>>
    /\ s_complete = FALSE

SInit ==
    /\ s_pc = "loop"
    /\ s_out = <<>>
    /\ s_complete = FALSE

\* byte_stream.next() = Some(Ok(bytes)), valid UTF-8 carrying the records `events`
SRecvChunk(events) ==
    /\ s_pc = "loop"
    /\ a_fed + Len(events) <= MaxEvents
    /\ a_fed' = a_fed + Len(events)
    /\ LET r == process_chunk(handler, events)
       IN  /\ handler' = r.h
           /\ CASE r.res = "false" -> UNCHANGED <<s_pc, s_out, s_complete>>
                [] r.res = "true" ->
                       /\ s_pc' = "final"
                       /\ s_complete' = TRUE
                       /\ UNCHANGED s_out
                [] r.res = "err" ->
                       /\ s_out' = Append(s_out, ErrorItem("assembler"))
                       /\ s_pc' = "final"
                       /\ UNCHANGED s_complete
    /\ UNCHANGED <<a_ret, a_hist, a_stop, a_msgs>>

\* Some(Ok(bytes)) that are not valid UTF-8: yield Err, `continue`
SRecvInvalidUtf8 ==
    /\ s_pc = "loop"
    /\ a_fed + 1 <= MaxEvents
    /\ a_fed' = a_fed + 1
    /\ s_out' = Append(s_out, ErrorItem("utf8"))
    /\ UNCHANGED <<s_pc, s_complete, handler, a_ret, a_hist, a_stop, a_msgs>>

\* Some(Err(e)) from the transport: yield Err, `break`
SRecvTransportError ==
    /\ s_pc = "loop"
    /\ s_out' = Append(s_out, ErrorItem("network"))
    /\ s_pc' = "final"
    /\ UNCHANGED <<s_complete, a_vars>>

\* byte_stream.next() = None: the response body ended
SRecvEnd ==
    /\ s_pc = "loop"
    /\ s_pc' = "final"
    /\ UNCHANGED <<s_out, s_complete, a_vars>>

\* the code after the loop: handler.get_message() and what it yields
SFinalize ==
    /\ s_pc = "final"
    /\ s_pc' = "done"
    /\ \E u1 \in Uuids, u2 \in Uuids :
           LET m == get_message(handler, u1, u2)
           IN  s_out' = IF m # None
                        THEN s_out \o BlockItems(m[1].message.content)
                                 \o <<DoneItem(handler)>>
                        ELSE Append(s_out, ErrorItem("no_metadata"))
    /\ UNCHANGED <<s_complete, a_vars>>

(***************************************************************************)
(* File tools (tools/file_read.rs, tools/file_write.rs, tools/file_edit.rs)*)
(* and the ToolContext ledger read_file_timestamps (tools/mod.rs)          *)
(***************************************************************************)
\* str::find(&str): 1-based position of the first occurrence, 0 when absent
FindStr(s, pat) ==
    LET hits == {i \in 1..(Len(s) - Len(pat) + 1) : SubSeq(s, i, i + Len(pat) - 1) = pat}
    IN  IF hits = {} THEN 0 ELSE CHOOSE i \in hits : \A j \in hits : i <= j

contains(s, pat) == FindStr(s, pat) # 0

ends_with(s, p) ==
    Len(s) >= Len(p) /\ SubSeq(s, Len(s) - Len(p) + 1, Len(s)) = p

\* str::matches(pat).count(): non-overlapping occurrences, left to right
RECURSIVE matches_count(_, _)
matches_count(s, pat) ==
    LET i == FindStr(s, pat)
    IN  IF i = 0 \/ pat = <<>> THEN 0
        ELSE 1 + matches_count(SubSeq(s, i + Len(pat), Len(s)), pat)

\* str::replacen(from, to, 1)
replacen1(s, from, to) ==
    LET i == FindStr(s, from)
    IN  IF i = 0 THEN s
        ELSE SubSeq(s, 1, i - 1) \o to \o SubSeq(s, i + Len(from), Len(s))

\* str::replace(from, to) for a non-empty pattern
RECURSIVE replace(_, _, _)
replace(s, from, to) ==
    LET i == FindStr(s, from)
    IN  IF i = 0 THEN s
        ELSE SubSeq(s, 1, i - 1) \o to
                 \o replace(SubSeq(s, i + Len(from), Len(s)), from, to)

LF == <<"\n">>
CRLF == <<"\r", "\n">>

\* Path::is_absolute on a Unix path
is_absolute(p) == starts_with(p, <<"/">>)

\* Path::extension: the text after the last '.' of the file name, if any
RECURSIVE extension(_)
extension(p) ==
    IF p = <<>> \/ p[Len(p)] = "/" THEN None
    ELSE IF p[Len(p)] = "."
         THEN IF Len(p) = 1 \/ p[Len(p) - 1] = "/" THEN None ELSE Some(<<>>)
    ELSE LET e == extension(SubSeq(p, 1, Len(p) - 1))
         IN  IF e = None THEN None ELSE Some(Append(e[1], p[Len(p)]))

\* the process's current directory; relative paths resolve against it
Cwd == <<"/">>

\* FileReadTool::normalize_path, and what the OS does with a relative path
normalize_path(p) == IF is_absolute(p) THEN p ELSE Cwd \o p

\* ValidationResult::ok / ValidationResult::error
ValidationOk == [result |-> TRUE, message |-> None]
ValidationError(msg) == [result |-> FALSE, message |-> Some(msg)]

\* format!(text, args..): the text and the values it interpolates
Message(text, args) == [text |-> text, args |-> args]

MsgNotAbsolute == Message("file_path must be an absolute path, not relative", <<>>)
MsgNotRead == Message("File has not been read yet. Read it first before writing to it.", <<>>)
MsgModified == Message("File has been modified since read", <<>>)
MsgSame == Message("No changes to make: old_string and new_string are exactly the same.", <<>>)
MsgExists == Message("Cannot create new file - file already exists.", <<>>)
MsgMissing == Message("File does not exist", <<>>)
MsgNotebook ==
    Message("File is a Jupyter Notebook. Use the NotebookEdit tool to edit this file.", <<>>)
MsgNotFound == Message("String to replace not found in file.", <<>>)
MsgMultiple(matches) == Message("Found {} matches of the string to replace", <<matches>>)
MsgReadFailed == Message("Failed to read file", <<>>)

\* a file: utf8 says whether fs::read_to_string succeeds on it
NoFile == [exists |-> FALSE, mtime |-> 0, content |-> <<>>, utf8 |-> TRUE]

\* the file a path names, as the file system holds it
FileAt(disk, p) ==
    IF normalize_path(p) \in DOMAIN disk THEN disk[normalize_path(p)] ELSE NoFile

\* a validate_input that only looks for a ledger entry
FileWrite_validate_input_presence_only(input, timestamps, disk) ==
    IF ~is_absolute(input.file_path) THEN ValidationError(MsgNotAbsolute)
    ELSE IF FileAt(disk, input.file_path).exists
         THEN IF input.file_path \in DOMAIN timestamps
              THEN ValidationOk
              ELSE ValidationError(MsgNotRead)
    ELSE ValidationOk

\* FileWriteTool::validate_input (the metadata of an existing file is
\* available and its modification time is not before the epoch)
FileWrite_validate_input(input, timestamps, disk) ==
    IF ~is_absolute(input.file_path) THEN ValidationError(MsgNotAbsolute)
    ELSE IF FileAt(disk, input.file_path).exists
         THEN IF input.file_path \in DOMAIN timestamps
              THEN IF FileAt(disk, input.file_path).mtime > timestamps[input.file_path]
                   THEN ValidationError(MsgModified)
                   ELSE ValidationOk
              ELSE ValidationError(MsgNotRead)
    ELSE ValidationOk

\* FileEditTool::validate_input
FileEdit_validate_input(input, timestamps, disk) ==
    LET file == FileAt(disk, input.file_path)
    IN  IF input.old_string = input.new_string THEN ValidationError(MsgSame)
        ELSE IF ~is_absolute(input.file_path) THEN ValidationError(MsgNotAbsolute)
        ELSE IF input.old_string = <<>>
             THEN IF file.exists THEN ValidationError(MsgExists) ELSE ValidationOk
        ELSE IF ~file.exists THEN ValidationError(MsgMissing)
        ELSE IF extension(input.file_path) = Some(<<"i", "p", "y", "n", "b">>)
             THEN ValidationError(MsgNotebook)
        ELSE IF input.file_path \notin DOMAIN timestamps
             THEN ValidationError(MsgNotRead)
        ELSE IF file.mtime > timestamps[input.file_path]
             THEN ValidationError(MsgModified)
        ELSE IF ~file.utf8 THEN ValidationError(MsgReadFailed)
        ELSE IF ~contains(file.content, input.old_string)
             THEN ValidationError(MsgNotFound)
        ELSE IF matches_count(file.content, input.old_string) > 1
             THEN ValidationError(MsgMultiple(matches_count(file.content, input.old_string)))
        ELSE ValidationOk

\* FileReadTool::validate_input (text files below the size limit)
FileRead_validate_input(input, timestamps, disk) ==
    IF ~FileAt(disk, input.file_path).exists THEN ValidationError(MsgMissing)
    ELSE ValidationOk

validate_input(tool, input, timestamps, disk) ==
    CASE tool = "FileWrite" -> FileWrite_validate_input(input, timestamps, disk)
      [] tool = "FileEdit" -> FileEdit_validate_input(input, timestamps, disk)
      [] tool = "FileRead" -> FileRead_validate_input(input, timestamps, disk)

\* detect_line_ending (both tools)
detect_line_ending(content) == IF contains(content, CRLF) THEN CRLF ELSE LF

\* the line-ending normalisation both tools apply before fs::write
normalize_line_endings(content, line_ending) ==
    IF line_ending = CRLF THEN replace(content, LF, CRLF)
    ELSE replace(content, CRLF, LF)

\* FileEditTool::apply_edit: Some(updated) or None for Err
apply_edit(original, old_string, new_string) ==
    IF old_string = <<>> THEN Some(new_string)
    ELSE IF ~contains(original, old_string) THEN None
    ELSE LET updated ==
                 IF new_string = <<>> /\ ~ends_with(old_string, LF)
                    /\ contains(original, old_string \o LF)
                 THEN replacen1(original, old_string \o LF, new_string)
                 ELSE replacen1(original, old_string, new_string)
         IN  IF updated = original THEN None ELSE Some(updated)

\* the outcome of a call(): whether it returned Ok, the file system after it,
\* the read_file_timestamps of the ToolContext the call owned, and the
\* operation_type of the output ("none" where the output has none)
CallResult(ok, disk, timestamps, operation_type) ==
    [ok |-> ok, disk |-> disk, timestamps |-> timestamps, operation_type |-> operation_type]

WriteFile(disk, p, content, t) ==
    [disk EXCEPT ![normalize_path(p)] =
        [exists |-> TRUE, mtime |-> t, content |-> content, utf8 |-> TRUE]]

\* FileWriteTool::call at wall-clock time t; io_ok: create_dir_all and
\* fs::write succeed
FileWrite_call(input, timestamps, disk, t, io_ok) ==
    LET file == FileAt(disk, input.file_path)
        old_content == IF file.exists /\ file.utf8 THEN Some(file.content) ELSE None
        line_ending == IF old_content # None THEN detect_line_ending(old_content[1]) ELSE LF
        normalized_content == normalize_line_endings(input.content, line_ending)
    IN  IF ~io_ok THEN CallResult(FALSE, disk, timestamps, "none")
        ELSE CallResult(TRUE, WriteFile(disk, input.file_path, normalized_content, t),
                        MapInsert(timestamps, input.file_path, t),
                        IF old_content # None THEN "update" ELSE "create")

\* FileEditTool::call at wall-clock time t
FileEdit_call(input, timestamps, disk, t, io_ok) ==
    LET file == FileAt(disk, input.file_path)
        readable == input.old_string = <<>> \/ (file.exists /\ file.utf8)
        original_file == IF input.old_string = <<>> THEN <<>> ELSE file.content
        updated_file == apply_edit(original_file, input.old_string, input.new_string)
        line_ending == IF original_file # <<>> THEN detect_line_ending(original_file) ELSE LF
    IN  IF ~readable \/ updated_file = None \/ ~io_ok
        THEN CallResult(FALSE, disk, timestamps, "none")
        ELSE CallResult(TRUE,
                        WriteFile(disk, input.file_path,
                                  normalize_line_endings(updated_file[1], line_ending), t),
                        MapInsert(timestamps, input.file_path, t), "none")

\* FileReadTool::call without offset and limit: the context is not used
FileRead_call(input, timestamps, disk, t, io_ok) ==
    CallResult(/\ FileAt(disk, input.file_path).exists
               /\ FileAt(disk, input.file_path).utf8
               /\ io_ok,
               disk, timestamps, "none")

call(tool, input, timestamps, disk, t, io_ok) ==
    CASE tool = "FileWrite" -> FileWrite_call(input, timestamps, disk, t, io_ok)
      [] tool = "FileEdit" -> FileEdit_call(input, timestamps, disk, t, io_ok)
      [] tool = "FileRead" -> FileRead_call(input, timestamps, disk, t, io_ok)


(***************************************************************************)
(* The file system, the clock and the tool inputs the model uses           *)
(***************************************************************************)
MaxClock == 1

TextPath == <<"/", "a">>
RelativePath == <<"a">>
NotebookPath == <<"/", "n", ".", "i", "p", "y", "n", "b">>
Paths == {TextPath, RelativePath, NotebookPath}
\* the working directory holds one file slot: the text file or the notebook
DiskPaths == {normalize_path(p) : p \in Paths}

FileContents == {<<"a", "\n", "a">>}
FileReadInputs(paths) == [file_path : paths]
FileWriteInputs(paths) == [file_path : paths, content : {<<"b">>}]
FileEditInputs(paths) ==
    {[file_path |-> p, old_string |-> e[1], new_string |-> e[2]] :
        p \in paths,
        e \in {<<<<>>, <<"b">>>>, <<<<"a">>, <<"b">>>>, <<<<"a">>, <<"a">>>>, <<<<"a">>, <<>>>>}}

ToolNames == {"FileRead", "FileWrite", "FileEdit"}
\* the inputs that name a file of the working directory
ToolInputs(tool, disk) ==
    LET paths == {p \in Paths : normalize_path(p) \in DOMAIN disk}
    IN  CASE tool = "FileRead" -> FileReadInputs(paths)
          [] tool = "FileWrite" -> FileWriteInputs(paths)
          [] tool = "FileEdit" -> FileEditInputs(paths)

TIdle ==
    /\ fs = <<>>
    /\ now = 0
    /\ ledger = <<>>
    /\ call_ctx = <<>>
    /\ last_val = <<>>
    /\ last_call = <<>>

\* a fresh ToolContext (empty read_file_timestamps) over a directory whose
\* file, if it exists, was written at time 0
TInit ==
    /\ \E p \in DiskPaths :
          fs \in [{p} -> {NoFile, [exists |-> TRUE, mtime |-> 0, content |-> <<"a">>, utf8 |-> TRUE]}]
    /\ now = 0
    /\ ledger = EmptyMap
    /\ call_ctx = EmptyMap
    /\ last_val = None
    /\ last_call = None

\* the caller runs tool.validate_input(&input, &ctx)
TValidate(tool, input) ==
    /\ last_val' = Some([tool |-> tool, input |-> input,
                         result |-> validate_input(tool, input, ledger, fs),
                         after_read |-> /\ last_call # None
                                        /\ last_call[1].tool = "FileRead"
                                        /\ last_call[1].ok
                                        /\ last_call[1].input.file_path = input.file_path])
    /\ last_call' = None
    /\ call_ctx' = EmptyMap
    /\ UNCHANGED <<fs, now, ledger>>

\* the caller runs tool.call(input, ctx) at time t: the context moves into
\* the call, the caller's own read_file_timestamps stay as they are
TCall(tool, input, t, io_ok) ==
    LET r == call(tool, input, ledger, fs, t, io_ok)
    IN  /\ fs' = r.disk
        /\ now' = t
        /\ call_ctx' = r.timestamps
        /\ last_call' = Some([tool |-> tool, input |-> input, ok |-> r.ok,
                              validated |-> /\ last_val # None
                                            /\ last_val[1].tool = tool
                                            /\ last_val[1].input = input
                                            /\ last_val[1].result.result,
                              changed |-> r.disk # fs])
        /\ last_val' = None
        /\ UNCHANGED ledger

\* the caller itself records a read of an existing file in the context it
\* keeps: the file's current modification time under the absolute path
TRecordRead(p) ==
    /\ is_absolute(p)
    /\ FileAt(fs, p).exists
    /\ ledger' = MapInsert(ledger, p, FileAt(fs, p).mtime)
    /\ last_val' = None
    /\ last_call' = None
    /\ call_ctx' = EmptyMap
    /\ UNCHANGED <<fs, now>>

\* the user or a linter rewrites a file at time t
TExternalModify(p, content, t) ==
    /\ fs' = WriteFile(fs, p, content, t)
    /\ now' = t
    /\ last_val' = None
    /\ last_call' = None
    /\ call_ctx' = EmptyMap
    /\ UNCHANGED ledger

(***************************************************************************)
(* One FileEdit or FileWrite request on a file the caller has read:        *)
(* validate_input, then call if the validation passed.                     *)
(***************************************************************************)
MaxContentLen == 3

\* every string over `alphabet` of at most n characters
RECURSIVE Strings(_, _)
Strings(alphabet, n) ==
    IF n = 0 THEN {<<>>}
    ELSE LET shorter == Strings(alphabet, n - 1)
         IN  shorter \cup {Append(s, c) : s \in {x \in shorter : Len(x) = n - 1},
                                           c \in alphabet}

EditFileContents == Strings({"a", "\r", "\n"}, MaxContentLen)
OldStrings == {<<>>, <<"a">>, <<"a", "a">>, <<"\n">>}
NewStrings == {<<>>, <<"a">>, <<"a", "\r">>, <<"\n">>, <<"a", "\r", "\n">>}
WriteContents == {<<"a">>, <<"a", "\n">>, <<"a", "\r", "\n">>}

RequestInputs(tool) ==
    CASE tool = "FileEdit" ->
             [file_path : {TextPath, RelativePath}, old_string : OldStrings,
              new_string : NewStrings]
      [] tool = "FileWrite" -> [file_path : {TextPath, RelativePath}, content : WriteContents]

\* the target is absent, or a text file or a file that is not UTF-8, written
\* at time 0 and read by the caller (its timestamp is in the ledger)
EInit ==
    /\ \E file \in {NoFile, [exists |-> TRUE, mtime |-> 0, content |-> <<>>, utf8 |-> FALSE]}
                    \cup {[exists |-> TRUE, mtime |-> 0, content |-> c, utf8 |-> TRUE] :
                             c \in EditFileContents} :
          /\ fs = [p \in {TextPath} |-> file]
          /\ ledger = IF file.exists THEN MapInsert(EmptyMap, TextPath, 0) ELSE EmptyMap
    /\ now = 0
    /\ call_ctx = EmptyMap
    /\ last_val = None
    /\ last_call = None

\* the request is validated
EValidate(tool, input) ==
    /\ last_val = None
    /\ last_call = None
    /\ TValidate(tool, input)

\* the validation passed: call runs at time t with the validated input
ECall(t, io_ok) ==
    /\ last_val # None
    /\ last_val[1].result.result
    /\ last_call = None
    /\ LET tool == last_val[1].tool
           input == last_val[1].input
           r == call(tool, input, ledger, fs, t, io_ok)
       IN  /\ fs' = r.disk
           /\ now' = t
           /\ call_ctx' = r.timestamps
           /\ last_call' = Some([tool |-> tool, input |-> input, ok |-> r.ok,
                                 validated |-> TRUE, changed |-> r.disk # fs,
                                 before |-> FileAt(fs, input.file_path),
                                 io_ok |-> io_ok,
                                 operation_type |-> r.operation_type])
    /\ UNCHANGED <<ledger, last_val>>

(***************************************************************************)
(* Tool invocations of one context (tools/mod.rs: Tool, ToolRegistry).     *)
(* Tool::call takes &self and an owned ToolContext, ToolRegistry::get      *)
(* hands out shared references: a caller may start a call while others     *)
(* are running.                                                            *)
(***************************************************************************)
MaxInvocations == 2
Slots == 1..MaxInvocations

AllToolNames ==
    {"Bash", "FileEdit", "FileRead", "FileWrite", "Glob", "Grep", "MemoryRead",
     "MemoryWrite", "Think", "TodoWrite", "UrlFetcher"}

\* Tool::is_concurrency_safe as each tool defines it (default: true)
is_concurrency_safe(tool) == tool \notin {"Bash", "FileEdit", "FileWrite"}

\* the tools whose call() itself can return Err (a `?` before the stream exists)
CallCanFail(tool) ==
    tool \in {"Bash", "FileEdit", "FileRead", "FileWrite", "Glob", "Grep"}

NoInvocation == [tool |-> "none", pc |-> "none"]

RunningIdle == running = <<>>
RunningInit == running = [k \in Slots |-> NoInvocation]

\* the caller awaits tool.call(input, ctx.clone()) in slot k
RStart(k, tool) ==
    /\ running[k].pc \in {"none", "ended"}
    /\ running' = [running EXCEPT ![k] = [tool |-> tool, pc |-> "call"]]

\* the call future completes: Ok(stream) or Err
RReturn(k, ok) ==
    /\ running[k].pc = "call"
    /\ ok \/ CallCanFail(running[k].tool)
    /\ running' = [running EXCEPT ![k].pc = IF ok THEN "stream" ELSE "ended"]

\* the caller has polled the stream of slot k to its end
RStreamEnd(k) ==
    /\ running[k].pc = "stream"
    /\ running' = [running EXCEPT ![k].pc = "ended"]

(***************************************************************************)
(* The ToolStream each tool's call returns (the items its stream yields).  *)
(* An outcome record says how the environment answered: whether call()     *)
(* itself returned Ok, and what each file-system or network step did.      *)
(***************************************************************************)
ResultItem == [type |-> "Result"]
ErrItem == [type |-> "Err"]

\* futures::stream::once / stream! { yield Ok(Result) }: Bash, FileEdit,
\* FileRead, FileWrite, Glob, Grep, Think, TodoWrite
once_result == <<ResultItem>>

\* a MemoryRead stream that goes on after reporting a missing file
MemoryRead_stream_no_return(o) ==
    IF ~o.home_ok THEN <<ErrItem>>
    ELSE IF ~o.mkdir_ok THEN <<ErrItem>>
    ELSE IF o.has_path
         THEN (IF ~o.exists THEN <<ErrItem>> ELSE <<>>)
                  \o (IF ~o.read_ok THEN <<ErrItem>> ELSE <<ResultItem>>)
    ELSE IF o.index_exists /\ ~o.read_ok THEN <<ErrItem>>
    ELSE <<ResultItem>>

\* MemoryReadTool::call: every `yield Err` is followed by `return`
\* (list_memory_files never returns Err: it skips unreadable entries)
MemoryRead_stream(o) ==
    IF ~o.home_ok THEN <<ErrItem>>
    ELSE IF ~o.mkdir_ok THEN <<ErrItem>>
    ELSE IF o.has_path
         THEN IF ~o.exists THEN <<ErrItem>>
              ELSE IF ~o.read_ok THEN <<ErrItem>>
              ELSE <<ResultItem>>
    ELSE IF o.index_exists /\ ~o.read_ok THEN <<ErrItem>>
    ELSE <<ResultItem>>

\* MemoryWriteTool::call
MemoryWrite_stream(o) ==
    IF ~o.home_ok THEN <<ErrItem>>
    ELSE IF ~o.mkdir_ok THEN <<ErrItem>>
    ELSE IF ~o.write_ok THEN <<ErrItem>>
    ELSE <<ResultItem>>

\* UrlFetcherTool::call: try_stream! ends with Err at the first failing `?`
UrlFetcher_stream(o) ==
    IF o.cached THEN <<ResultItem>>
    ELSE IF ~o.fetch_ok THEN <<ErrItem>>
    ELSE IF ~o.convert_ok THEN <<ErrItem>>
    ELSE <<ResultItem>>

ToolStreamOf(tool, o) ==
    CASE tool = "MemoryRead" -> MemoryRead_stream(o)
      [] tool = "MemoryWrite" -> MemoryWrite_stream(o)
      [] tool = "UrlFetcher" -> UrlFetcher_stream(o)
      [] OTHER -> once_result

\* how the environment may answer an invocation of each tool
Outcomes(tool) ==
    CASE tool = "MemoryRead" ->
             [call_ok : {TRUE}, home_ok : BOOLEAN, mkdir_ok : BOOLEAN, has_path : BOOLEAN,
              exists : BOOLEAN, read_ok : BOOLEAN, index_exists : BOOLEAN]
      [] tool = "MemoryWrite" ->
             [call_ok : {TRUE}, home_ok : BOOLEAN, mkdir_ok : BOOLEAN, write_ok : BOOLEAN]
      [] tool = "UrlFetcher" ->
             [call_ok : {TRUE}, cached : BOOLEAN, fetch_ok : BOOLEAN, convert_ok : BOOLEAN]
      [] OTHER -> [call_ok : IF CallCanFail(tool) THEN BOOLEAN ELSE {TRUE}]

TsIdle == ts = <<>>
TsInit == ts = [tool |-> "none", outcome |-> <<>>, pc |-> "none",
                pending |-> <<>>, yielded |-> <<>>]

\* tool.call(input, ctx) returns Err, or Ok with the stream not yet polled
TsCall(tool, o) ==
    /\ ts.pc = "none"
    /\ ts' = [tool |-> tool, outcome |-> o,
              pc |-> IF o.call_ok THEN "stream" ELSE "failed",
              pending |-> IF o.call_ok THEN ToolStreamOf(tool, o) ELSE <<>>,
              yielded |-> <<>>]

\* stream.next(): the next item, or None when the stream is exhausted
TsPoll ==
    /\ ts.pc = "stream"
    /\ ts' = IF ts.pending = <<>>
             THEN [ts EXCEPT !.pc = "ended"]
             ELSE [ts EXCEPT !.pending = Tail(@), !.yielded = Append(@, ts.pending[1])]

\* the caller drops the stream and turns to the next invocation
TsDrop ==
    /\ ts.pc \in {"failed", "ended"}
    /\ ts' = [tool |-> "none", outcome |-> <<>>, pc |-> "none",
              pending |-> <<>>, yielded |-> <<>>]
BashIdle == bash = <<>>
MemIdle == mem = <<>>

\* no invocation, no subprocess, no memory access
XIdle == RunningIdle /\ TsIdle /\ BashIdle /\ MemIdle

(***************************************************************************)
(* Bash tool (tools/bash.rs): validate_input, and call with its subprocess *)
(***************************************************************************)
MAX_TIMEOUT_MS == 600000

BANNED_COMMANDS ==
    { <<"a", "l", "i", "a", "s">>, <<"c", "u", "r", "l">>,
      <<"c", "u", "r", "l", "i", "e">>, <<"w", "g", "e", "t">>,
      <<"a", "x", "e", "l">>, <<"a", "r", "i", "a", "2", "c">>, <<"n", "c">>,
      <<"t", "e", "l", "n", "e", "t">>, <<"l", "y", "n", "x">>,
      <<"w", "3", "m">>, <<"l", "i", "n", "k", "s">>,
      <<"h", "t", "t", "p", "i", "e">>, <<"x", "h">>,
      <<"h", "t", "t", "p", "-", "p", "r", "o", "m", "p", "t">>,
      <<"c", "h", "r", "o", "m", "e">>, <<"f", "i", "r", "e", "f", "o", "x">>,
      <<"s", "a", "f", "a", "r", "i">> }

\* str::to_lowercase on the ASCII letters the commands use
to_lowercase(s) ==
    LET upper == <<"C", "U", "R", "L", "W", "N", "X", "H">>
        lower == <<"c", "u", "r", "l", "w", "n", "x", "h">>
    IN  [i \in 1..Len(s) |->
            IF \E k \in 1..Len(upper) : upper[k] = s[i]
            THEN lower[CHOOSE k \in 1..Len(upper) : upper[k] = s[i]]
            ELSE s[i]]

\* the prefix of s before the first character of `stops`
RECURSIVE TakeUntil(_, _)
TakeUntil(s, stops) ==
    IF s = <<>> \/ s[1] \in stops THEN <<>> ELSE <<s[1]>> \o TakeUntil(Tail(s), stops)

\* str::trim_start: the suffix of s from its first character outside `skipped`
RECURSIVE trim_start(_, _)
trim_start(s, skipped) ==
    IF s # <<>> /\ s[1] \in skipped THEN trim_start(Tail(s), skipped) ELSE s

\* BashTool::extract_base_command: Option<String>
extract_base_command(command) ==
    LET whitespace == {" ", "\t", "\n", "\r"}
        trimmed == trim_start(command, whitespace)
        first_part == TakeUntil(trimmed, {"|", "&", ";", "\n"})
        parts_first == TakeUntil(trim_start(first_part, whitespace), whitespace)
    IN  IF trim_start(command, whitespace) = <<>> THEN None
        ELSE IF parts_first = <<>> THEN None
        ELSE Some(parts_first)

Bash_validate_input(input) ==
    IF input.timeout # None /\ input.timeout[1] > MAX_TIMEOUT_MS
    THEN ValidationError(Message("Timeout cannot exceed {} milliseconds", <<MAX_TIMEOUT_MS>>))
    ELSE LET base_cmd == extract_base_command(input.command)
         IN  IF base_cmd # None /\ to_lowercase(base_cmd[1]) \in BANNED_COMMANDS
             THEN ValidationError(Message("Command '{}' is not allowed for security reasons",
                                          <<base_cmd[1]>>))
             ELSE ValidationOk

BashCommands ==
    { <<>>, <<" ", " ">>, <<"l", "s">>, <<"l", "s", " ", "-", "l">>,
      <<"c", "u", "r", "l", " ", "x">>, <<"C", "U", "R", "L", " ", "x">>,
      <<" ", "W", "g", "e", "t", " ", "x">>, <<"n", "c">>,
      <<"x", "h", "|", "l", "s">>,
      <<"l", "s", "|", "c", "u", "r", "l", " ", "x">>,
      <<"c", "u", "r", "l", ";", "l", "s">>, <<"n", "c", "&", "&", "l", "s">>,
      <<"w", "3", "m", "\n", "l", "s">>, <<";", "c", "u", "r", "l", " ", "x">>,
      <<"c", "u", "r", "l", "s">>, <<"e", "c", "h", "o", " ", "n", "c">>,
      <<"s", "l", "e", "e", "p", " ", "9">>,
      <<"s", "l", "e", "e", "p", " ", "9", " ", "&">> }

BashInputs ==
    [command : BashCommands,
     timeout : {None, Some(MAX_TIMEOUT_MS), Some(MAX_TIMEOUT_MS + 1)}]

\* no validation made, no call in progress, no subprocess
BashInit ==
    bash = [validated |-> None, input |-> None, pc |-> "idle", child |-> None,
            result |-> None]

\* the caller awaits validate_input(&input, &ctx)
BValidate(input) ==
    /\ bash.pc = "idle"
    /\ bash.validated = None
    /\ bash' = [bash EXCEPT !.validated =
                    Some([input |-> input, result |-> Bash_validate_input(input)])]

\* the caller awaits call(input, ctx), with the input it validated if it
\* validated one, whatever the result was: `sh -c command` is spawned with piped
\* stdout and stderr, or the spawn fails and call returns the error;
\* `on_its_own` tells whether the subprocess ever closes its pipes and exits
BCallSpawn(input, spawn_ok, on_its_own) ==
    /\ bash.pc = "idle"
    /\ bash.validated # None => bash.validated[1].input = input
    /\ bash' = [bash EXCEPT
                   !.input = Some(input),
                   !.pc = IF spawn_ok THEN "read_stdout" ELSE "done",
                   !.child = IF spawn_ok
                             THEN Some([stdout_open |-> TRUE, stderr_open |-> TRUE,
                                        exited |-> FALSE, killed |-> FALSE,
                                        on_its_own |-> on_its_own])
                             ELSE None,
                   !.result = IF spawn_ok THEN None ELSE Some([type |-> "Err"])]

\* the subprocess (or the last process that inherited the pipe) closes a pipe
PClose(pipe) ==
    /\ bash.child # None
    /\ bash.child[1].on_its_own
    /\ bash.child[1][pipe]
    /\ bash' = [bash EXCEPT !.child = Some([bash.child[1] EXCEPT ![pipe] = FALSE])]

\* the subprocess exits
PExit ==
    /\ bash.child # None
    /\ bash.child[1].on_its_own
    /\ ~bash.child[1].exited
    /\ bash' = [bash EXCEPT !.child = Some([bash.child[1] EXCEPT !.exited = TRUE])]

\* `while let Ok(Some(line)) = stdout_reader_lines.next_line().await`
\* ends when the pipe is at end of file
BReadStdout ==
    /\ bash.pc = "read_stdout"
    /\ ~bash.child[1].stdout_open
    /\ bash' = [bash EXCEPT !.pc = "read_stderr"]

BReadStderr ==
    /\ bash.pc = "read_stderr"
    /\ ~bash.child[1].stderr_open
    /\ bash' = [bash EXCEPT !.pc = "wait"]

\* timeout(timeout, child.wait()) completes with the exit status
BWaitExited ==
    /\ bash.pc = "wait"
    /\ bash.child[1].exited
    /\ bash' = [bash EXCEPT !.pc = "done",
                            !.result = Some([type |-> "Result", interrupted |-> FALSE])]

\* timeout(timeout, child.wait()) elapses first: child.kill()
BWaitTimeout ==
    /\ bash.pc = "wait"
    /\ ~bash.child[1].exited
    /\ bash' = [bash EXCEPT
                   !.pc = "done",
                   !.child = Some([bash.child[1] EXCEPT !.exited = TRUE, !.killed = TRUE]),
                   !.result = Some([type |-> "Result", interrupted |-> TRUE])]

(***************************************************************************)
(* Agent memory tools (tools/memory_read.rs, tools/memory_write.rs).       *)
(* A path is its sequence of components, the root directory first; the     *)
(* file system is the set of directories and the set of files that exist.  *)
(***************************************************************************)
RootDir == <<"/">>
ParentDir == <<".", ".">>

\* Path::components of a string: the root if it starts with '/', then the
\* names between separators, empty names and "." skipped
RECURSIVE components(_)
components(s) ==
    IF s = <<>> THEN <<>>
    ELSE IF s[1] = "/" THEN components(Tail(s))
    ELSE LET name == TakeUntil(s, {"/"})
             rest == components(SubSeq(s, Len(name) + 1, Len(s)))
         IN  IF name = <<".">> THEN rest ELSE <<name>> \o rest

\* PathBuf::join: an absolute argument replaces the base
join(base, s) ==
    IF s # <<>> /\ s[1] = "/" THEN <<RootDir>> \o components(s) ELSE base \o components(s)

\* Path::parent: the path without its last component
parent(path) == IF Len(path) > 1 THEN Some(SubSeq(path, 1, Len(path) - 1)) ELSE None

\* dirs::home_dir()
HomeDir == <<RootDir, <<"h", "o", "m", "e">>>>

\* get_agent_memory_dir
get_agent_memory_dir(agent_id) ==
    join(HomeDir \o <<<<".", "k", "o", "d", "e">>, <<"m", "e", "m", "o", "r", "y">>, <<"a", "g", "e", "n", "t", "s">>>>, agent_id)

\* the file system follows `rest` from directory `cur`: [ok, path, dirs], the
\* path reached and, when `create` is set, the directories made on the way
RECURSIVE Resolve(_, _, _, _)
Resolve(cur, rest, disk, create) ==
    IF rest = <<>> THEN [ok |-> TRUE, path |-> cur, dirs |-> disk.dirs]
    ELSE IF cur \in disk.files THEN [ok |-> FALSE, path |-> cur, dirs |-> disk.dirs]
    ELSE IF Head(rest) = RootDir THEN Resolve(<<RootDir>>, Tail(rest), disk, create)
    ELSE IF Head(rest) = ParentDir
    THEN Resolve(IF Len(cur) > 1 THEN SubSeq(cur, 1, Len(cur) - 1) ELSE cur,
                 Tail(rest), disk, create)
    ELSE LET next == Append(cur, Head(rest))
         IN  IF next \in disk.dirs \cup disk.files
             THEN Resolve(next, Tail(rest), disk, create)
             ELSE IF create
             THEN Resolve(next, Tail(rest), [disk EXCEPT !.dirs = @ \cup {next}], create)
             ELSE [ok |-> FALSE, path |-> cur, dirs |-> disk.dirs]

\* Path::canonicalize: Option<PathBuf>, None when the path does not exist
canonicalize(path, disk) ==
    LET r == Resolve(<<RootDir>>, path, disk, FALSE)
    IN  IF r.ok THEN Some(r.path) ELSE None

MsgInvalidMemoryPath == Message("Invalid memory file path", <<>>)

MemoryRead_validate_input(input, agent_id, disk) ==
    LET memory_dir == get_agent_memory_dir(agent_id)
    IN  IF input.file_path = None THEN ValidationOk
        ELSE LET file_path == input.file_path[1]
                 full_path == join(memory_dir, file_path)
                 canonical == canonicalize(full_path, disk)
             IN  IF contains(file_path, <<".", ".">>) \/ starts_with(file_path, <<"/">>)
                 THEN ValidationError(MsgInvalidMemoryPath)
                 ELSE IF canonical # None /\ ~starts_with(canonical[1], memory_dir)
                 THEN ValidationError(MsgInvalidMemoryPath)
                 ELSE IF canonical = None
                 THEN ValidationError(Message("Memory file does not exist", <<>>))
                 ELSE ValidationOk

MemoryWrite_validate_input(input, agent_id, disk) ==
    LET memory_dir == get_agent_memory_dir(agent_id)
        file_path == input.file_path[1]
        full_path == join(memory_dir, file_path)
        canonical_parent == IF parent(full_path) = None THEN None
                            ELSE canonicalize(parent(full_path)[1], disk)
    IN  IF contains(file_path, <<".", ".">>) \/ starts_with(file_path, <<"/">>)
        THEN ValidationError(MsgInvalidMemoryPath)
        ELSE IF canonical_parent # None /\ ~starts_with(canonical_parent[1], memory_dir)
        THEN ValidationError(MsgInvalidMemoryPath)
        ELSE ValidationOk

\* MemoryReadTool::call: [ok, disk, accessed], the file system afterwards and
\* the file read or the directory listed
MemoryRead_call(input, agent_id, disk) ==
    LET memory_dir == get_agent_memory_dir(agent_id)
        made == Resolve(<<RootDir>>, memory_dir, disk, TRUE)
        after == [disk EXCEPT !.dirs = made.dirs]
        target == IF input.file_path = None THEN memory_dir
                  ELSE join(memory_dir, input.file_path[1])
        canonical == canonicalize(target, after)
    IN  IF ~made.ok THEN [ok |-> FALSE, disk |-> disk, accessed |-> None]
        ELSE IF canonical = None THEN [ok |-> FALSE, disk |-> after, accessed |-> None]
        ELSE IF input.file_path # None /\ canonical[1] \notin after.files
        THEN [ok |-> FALSE, disk |-> after, accessed |-> None]
        ELSE [ok |-> TRUE, disk |-> after, accessed |-> canonical]

\* MemoryWriteTool::call: [ok, disk, accessed], the file written
MemoryWrite_call(input, agent_id, disk) ==
    LET full_path == join(get_agent_memory_dir(agent_id), input.file_path[1])
        made == IF parent(full_path) = None
                THEN [ok |-> TRUE, path |-> <<RootDir>>, dirs |-> disk.dirs]
                ELSE Resolve(<<RootDir>>, parent(full_path)[1], disk, TRUE)
        after == [disk EXCEPT !.dirs = made.dirs]
        written == Resolve(made.path, <<full_path[Len(full_path)]>>,
                           [after EXCEPT !.files = @ \cup {Append(made.path, full_path[Len(full_path)])}],
                           FALSE)
    IN  IF ~made.ok THEN [ok |-> FALSE, disk |-> disk, accessed |-> None]
        ELSE IF written.path \in after.dirs
        THEN [ok |-> FALSE, disk |-> after, accessed |-> None]
        ELSE [ok |-> TRUE, disk |-> [after EXCEPT !.files = @ \cup {written.path}],
              accessed |-> Some(written.path)]

\* ToolContext.agent_id: Option<String>
AgentIds == {None, Some(<<"a">>), Some(<<".", ".">>), Some(<<"/", "a">>), Some(<<"a", "/", ".", ".">>)}
\* file_path of MemoryReadInput (Option<String>) and MemoryWriteInput (String)
MemoryPaths == {<<>>, <<"a">>, <<"b">>, <<"/", "a">>, <<".", ".", "/", "a">>, <<"a", "/", "a">>, <<"a", "/", ".", "/", "b">>}

\* the agents directory exists or not; an existing one holds the directory
\* and a file of agent "a", and the memory directory holds a file of its own
MemDisks ==
    LET memory == HomeDir \o <<<<".", "k", "o", "d", "e">>, <<"m", "e", "m", "o", "r", "y">>>>
        agents == Append(memory, <<"a", "g", "e", "n", "t", "s">>)
    IN  { [dirs |-> {<<RootDir>>, HomeDir}, files |-> {}],
          [dirs |-> {<<RootDir>>, HomeDir, SubSeq(memory, 1, 3), memory},
           files |-> {Append(memory, <<"a">>)}],
          [dirs |-> {<<RootDir>>, HomeDir, SubSeq(memory, 1, 3), memory, agents,
                     Append(agents, <<"a">>)},
           files |-> {Append(memory, <<"a">>), agents \o <<<<"a">>, <<"a">>>>}] }

MemInit ==
    \E agent_id \in AgentIds : \E disk \in MemDisks :
        mem = [agent_id |-> agent_id, disk |-> disk, validated |-> None, called |-> None]

\* the caller awaits validate_input(&input, &context)
MValidate(tool, file_path) ==
    /\ mem.validated = None
    /\ tool = "MemoryWrite" => file_path # None
    /\ LET agent_id == IF mem.agent_id = None THEN <<"d", "e", "f", "a", "u", "l", "t">> ELSE mem.agent_id[1]
           input == [file_path |-> file_path]
       IN  mem' = [mem EXCEPT !.validated =
                      Some([tool |-> tool, input |-> input,
                            result |-> IF tool = "MemoryRead"
                                       THEN MemoryRead_validate_input(input, agent_id, mem.disk)
                                       ELSE MemoryWrite_validate_input(input, agent_id, mem.disk)])]

\* the validation passed: the caller awaits call(input, context) and drains
\* the stream
MCall ==
    /\ mem.validated # None
    /\ mem.validated[1].result.result
    /\ mem.called = None
    /\ LET agent_id == IF mem.agent_id = None THEN <<"d", "e", "f", "a", "u", "l", "t">> ELSE mem.agent_id[1]
           v == mem.validated[1]
           r == IF v.tool = "MemoryRead" THEN MemoryRead_call(v.input, agent_id, mem.disk)
                ELSE MemoryWrite_call(v.input, agent_id, mem.disk)
       IN  mem' = [mem EXCEPT !.disk = r.disk,
                              !.called = Some([ok |-> r.ok, accessed |-> r.accessed])]

(***************************************************************************)
(* Inert lines (sse_parser.rs, process_line): a comment line, and a line   *)
(* whose field name is none of event, data, id, retry.  The model takes an *)
(* SSE text, inserts such lines at line boundaries and parses both texts   *)
(* with a fresh parser: parse_chunk on the whole text, then flush.         *)
(***************************************************************************)
MaxInserted == 1

\* each with its line terminator
InertLines ==
    { <<":", "d", "a", "t", "a", ":", "z", "\n">>,       \* a comment
      <<"f", "o", "o", ":", " ", "1", "\n">>,            \* an unknown field
      <<"d", "a", "t", "a", "x", "\r", "\n">>,           \* no colon: the field is the line
      <<" ", "d", "a", "t", "a", ":", "z", "\n">> }      \* the field is " data"

\* the start of the text and the position after every '\n'
LineBoundaries(text) == {0} \cup {i \in 1..Len(text) : text[i] = "\n"}

InsertAt(text, at, line) ==
    SubSeq(text, 1, at) \o line \o SubSeq(text, at + 1, Len(text))

\* the events a fresh parser returns for a text: parse_chunk, then flush
parse_text(text) ==
    LET r == parse_chunk(SseParserNew, text)
        f == flush(r.parser)
    IN  r.events \o f.out

InsInit ==
    ins \in {[original |-> t, text |-> t, inserted |-> 0, inside |-> FALSE,
              base |-> None, events |-> None] : t \in SseTexts(MaxPieces - 1)}

\* the original text is parsed
InsParseOriginal ==
    /\ ins.base = None
    /\ ins' = [ins EXCEPT !.base = Some(parse_text(ins.original))]

\* one more inert line is inserted at a line boundary and the text parsed
InsInsert(at, line) ==
    /\ ins.base # None
    /\ ins.inserted < MaxInserted
    /\ at \in LineBoundaries(ins.text)
    /\ LET text == InsertAt(ins.text, at, line)
           before == parse_chunk(SseParserNew, SubSeq(ins.text, 1, at)).parser
       IN  ins' = [ins EXCEPT !.text = text,
                              !.inserted = @ + 1,
                              !.inside = @ \/ before.current_event # SseEventNew,
                              !.events = Some(parse_text(text))]

(***************************************************************************)
(* flush() at the end of a stream (sse_parser.rs, flush): a fresh parser   *)
(* consumes a text that may stop anywhere, flush() is called once or       *)
(* twice, and then more input may arrive.                                  *)
(***************************************************************************)
\* the texts a stream may have carried when it stops: every prefix
FlushTexts ==
    UNION {{SubSeq(t, 1, n) : n \in 0..Len(t)} : t \in SseTexts(MaxPieces - 1)}

FlInit ==
    fl \in {[text |-> t, consumed |-> FALSE, parser |-> SseParserNew,
             flushes |-> <<>>, later |-> None] : t \in FlushTexts}

\* parser.parse_chunk(text)
FlConsume ==
    /\ ~fl.consumed
    /\ fl' = [fl EXCEPT !.consumed = TRUE,
                        !.parser = parse_chunk(fl.parser, fl.text).parser]

\* parser.flush(), once and once more
FlFlush ==
    /\ fl.consumed /\ fl.later = None /\ Len(fl.flushes) < 2
    /\ LET r == flush(fl.parser)
       IN  fl' = [fl EXCEPT !.parser = r.parser, !.flushes = Append(@, r.out)]

\* parser.parse_chunk(input) after the flush
FlLater(input) ==
    /\ fl.flushes # <<>> /\ fl.later = None
    /\ LET r == parse_chunk(fl.parser, input)
       IN  fl' = [fl EXCEPT !.parser = r.parser,
                            !.later = Some([input |-> input, events |-> r.events])]

(***************************************************************************)
(* Glob and Grep (tools/glob.rs, tools/grep.rs).  The files that match are *)
(* named 1..n by their rank in the order the tool sorts them into          *)
(* (modification time), so the sorted list of n matches is <<1, ..., n>>.  *)
(***************************************************************************)
Glob_MAX_RESULTS == 100
Grep_MAX_RESULTS == 100
MaxExtraMatches == 2

SortedMatches(n) == [i \in 1..n |-> i]

\* Iterator::take(limit)
take(files, limit) == SubSeq(files, 1, IF Len(files) < limit THEN Len(files) ELSE limit)

\* glob_search: (files, truncated)
glob_search(n, limit) ==
    LET matches == SortedMatches(n)
    IN  [files |-> take(matches, limit), truncated |-> Len(matches) > limit]

\* GlobTool::call: the GlobOutput
Glob_call(n) ==
    LET r == glob_search(n, Glob_MAX_RESULTS)
    IN  [num_files |-> Len(r.files), filenames |-> r.files, truncated |-> r.truncated]

\* GrepTool::call: the GrepOutput, or the error of a failed ripgrep run
Grep_call(n, rg_ok) ==
    IF ~rg_ok THEN [ok |-> FALSE, error |-> "ToolExecution"]
    ELSE LET sorted_files == SortedMatches(n)
         IN  [ok |-> TRUE,
              output |-> [num_files |-> Len(sorted_files), filenames |-> sorted_files]]

\* render_result: the names shown and whether the truncation notice is added
Glob_render_result(output) ==
    IF output.num_files = 0 THEN [shown |-> <<>>, notice |-> FALSE]
    ELSE [shown |-> output.filenames, notice |-> output.truncated]

Grep_render_result(output) ==
    IF output.num_files = 0 THEN [shown |-> <<>>, notice |-> FALSE]
    ELSE [shown |-> take(output.filenames, Grep_MAX_RESULTS),
          notice |-> output.num_files > Grep_MAX_RESULTS]

SearchInit ==
    search \in {[tool |-> t, matched |-> n, called |-> None, rendered |-> None] :
                   t \in {"Glob", "Grep"}, n \in 0..(Glob_MAX_RESULTS + MaxExtraMatches)}

\* tool.call(input, context) and render_result on its output
SearchCall(rg_ok) ==
    /\ search.called = None
    /\ search.tool = "Glob" => rg_ok
    /\ LET r == IF search.tool = "Glob"
                THEN [ok |-> TRUE, output |-> Glob_call(search.matched)]
                ELSE Grep_call(search.matched, rg_ok)
       IN  search' = [search EXCEPT
               !.called = Some(r),
               !.rendered = IF ~r.ok THEN None
                            ELSE IF search.tool = "Glob"
                            THEN Some(Glob_render_result(r.output))
                            ELSE Some(Grep_render_result(r.output))]

(***************************************************************************)
(* ModelAdapterFactory::create (services/mod.rs) over every ProviderType   *)
(* (config/models.rs), with the constructors of the two adapters.          *)
(***************************************************************************)
ProviderTypes ==
    { "Anthropic", "OpenAI", "Mistral", "Deepseek", "Kimi", "Qwen", "Glm", "Minimax",
      "BaiduQianfan", "Siliconflow", "Bigdream", "Opendev", "Xai", "Groq", "Gemini",
      "Ollama", "Azure", "Custom", "CustomOpenAI" }

\* ProviderType::default_base_url
default_base_url(provider) ==
    CASE provider = "Anthropic" -> Some("https://api.anthropic.com")
      [] provider \in {"OpenAI", "CustomOpenAI"} -> Some("https://api.openai.com/v1")
      [] provider = "Groq" -> Some("https://api.groq.com/openai/v1")
      [] provider = "Ollama" -> Some("http://localhost:11434")
      [] OTHER -> None

\* HeaderValue::from_str: fails on a control character
HeaderValue_from_str_ok(value) == \A i \in 1..Len(value) : value[i] # "\n"

\* AnthropicAdapter::new; env_key is the ANTHROPIC_API_KEY variable, if set
AnthropicAdapter_new(profile, env_key) ==
    IF profile.api_key = <<>> /\ env_key = None
    THEN [ok |-> FALSE, error |-> "MissingApiKey"]
    ELSE LET api_key == IF profile.api_key = <<>> THEN env_key[1] ELSE profile.api_key
         IN  IF ~HeaderValue_from_str_ok(api_key)
             THEN [ok |-> FALSE, error |-> "InvalidConfig"]
             ELSE [ok |-> TRUE,
                   adapter |-> [type |-> "AnthropicAdapter", provider |-> "anthropic",
                                profile |-> profile,
                                base_url |-> IF profile.base_url # None
                                             THEN profile.base_url[1]
                                             ELSE "https://api.anthropic.com"]]

\* OpenAIAdapter::new; env_key is the OPENAI_API_KEY variable, if set
OpenAIAdapter_new(profile, env_key) ==
    LET api_key == IF profile.api_key # <<>> THEN profile.api_key
                   ELSE IF env_key # None THEN env_key[1]
                   ELSE <<"d", "u", "m", "m", "y", "-", "k", "e", "y">>
    IN  IF ~HeaderValue_from_str_ok(api_key)
        THEN [ok |-> FALSE, error |-> "InvalidConfig"]
        ELSE [ok |-> TRUE,
              adapter |-> [type |-> "OpenAIAdapter", provider |-> "openai",
                           profile |-> profile,
                           base_url |-> IF profile.base_url # None
                                        THEN profile.base_url[1]
                                        ELSE "https://api.openai.com/v1"]]

\* ModelAdapterFactory::create
ModelAdapterFactory_create(profile, env_key) ==
    CASE profile.provider = "Anthropic" -> AnthropicAdapter_new(profile, env_key)
      [] profile.provider \in {"OpenAI", "CustomOpenAI"} -> OpenAIAdapter_new(profile, env_key)
      [] profile.provider = "Azure" -> OpenAIAdapter_new(profile, env_key)
      [] profile.provider = "Custom" -> OpenAIAdapter_new(profile, env_key)
      [] profile.provider = "Ollama" -> OpenAIAdapter_new(profile, env_key)
      [] profile.provider = "Groq" -> OpenAIAdapter_new(profile, env_key)
      [] OTHER -> [ok |-> FALSE, error |-> "UnsupportedProvider"]

ModelProfiles ==
    [provider : ProviderTypes,
     base_url : {None, Some("http://localhost:8080/v1")},
     api_key : {<<>>, <<"k">>, <<"\n">>}]

FactoryInit == factory \in {[profile |-> p, result |-> None] : p \in ModelProfiles}

FactoryCreate(env_key) ==
    /\ factory.result = None
    /\ factory' = [factory EXCEPT
           !.result = Some(ModelAdapterFactory_create(factory.profile, env_key))]

(***************************************************************************)
(* Adapter calls over HTTP (services/anthropic.rs, services/openai.rs):    *)
(* what complete and stream_complete return for each way the exchange can  *)
(* go.  An error is the name of its KodeError variant; for a stream it is  *)
(* the first Err the stream yields.                                        *)
(***************************************************************************)
\* what happens to the request: send() fails, or a response arrives with a
\* status, and then its body is intact, malformed or cut by the transport
NetScenarios ==
    { [send |-> "connect_error", status |-> "none", body |-> "none"],
      [send |-> "timeout", status |-> "none", body |-> "none"],
      [send |-> "ok", status |-> "non_2xx", body |-> "intact"],
      [send |-> "ok", status |-> "non_2xx", body |-> "connection_lost"],
      [send |-> "ok", status |-> "2xx", body |-> "intact"],
      [send |-> "ok", status |-> "2xx", body |-> "malformed_json"],
      [send |-> "ok", status |-> "2xx", body |-> "invalid_utf8"],
      [send |-> "ok", status |-> "2xx", body |-> "connection_lost"],
      [send |-> "ok", status |-> "2xx", body |-> "timeout"] }

\* why the exchange fails, if it does
FailureCause(s) ==
    CASE s.send # "ok" -> "transport"
      [] s.body \in {"connection_lost", "timeout"} -> "transport"
      [] s.status = "non_2xx" -> "status"
      [] s.body \in {"malformed_json", "invalid_utf8"} -> "malformed"
      [] OTHER -> "none"

Ok == [ok |-> TRUE]
Err(kind) == [ok |-> FALSE, error |-> kind]

\* AnthropicAdapter::complete and OpenAIAdapter::complete: `.send().await?`,
\* the status check with `response.text().await?`, then
\* `response.json().await?`; every reqwest::Error becomes KodeError::Http
complete(s) ==
    IF s.send # "ok" THEN Err("Http")
    ELSE IF s.status = "non_2xx"
    THEN IF s.body = "intact" THEN Err("ApiError") ELSE Err("Http")
    ELSE IF s.body = "intact" THEN Ok ELSE Err("Http")

\* process_stream: the first Err the stream yields for a response body
process_stream_error(body) ==
    CASE body \in {"connection_lost", "timeout"} -> Err("NetworkError")
      [] body = "invalid_utf8" -> Err("Other")
      [] body = "malformed_json" -> Err("Other")
      [] OTHER -> Ok

\* AnthropicAdapter::stream_complete followed by the stream it returns
Anthropic_stream_complete(s) ==
    IF s.send # "ok" THEN Err("Http")
    ELSE IF s.status = "non_2xx"
    THEN IF s.body = "intact" THEN Err("ApiError") ELSE Err("Http")
    ELSE process_stream_error(s.body)

\* OpenAIAdapter::stream_complete
OpenAI_stream_complete(s) == Err("NotImplemented")

AdapterCall(adapter, operation, s) ==
    CASE operation = "complete" -> complete(s)
      [] operation = "stream_complete" /\ adapter = "anthropic" -> Anthropic_stream_complete(s)
      [] operation = "stream_complete" /\ adapter = "openai" -> OpenAI_stream_complete(s)

\* the same call made twice, each time with its own fate
NetInit ==
    net \in {[adapter |-> a, call |-> c, first |-> s1, second |-> s2,
              first_result |-> None, second_result |-> None] :
                 a \in {"anthropic", "openai"}, c \in {"complete", "stream_complete"},
                 s1 \in NetScenarios, s2 \in NetScenarios}

NetFirstCall ==
    /\ net.first_result = None
    /\ net' = [net EXCEPT !.first_result = Some(AdapterCall(net.adapter, net.call, net.first))]

NetSecondCall ==
    /\ net.first_result # None /\ net.second_result = None
    /\ net' = [net EXCEPT !.second_result = Some(AdapterCall(net.adapter, net.call, net.second))]

(***************************************************************************)
(* FileRead with offset and limit (tools/file_read.rs): read_text_content  *)
(* and the part of FileReadTool::call that leads to it.                    *)
(***************************************************************************)
MAX_LINES_TO_READ == 2000
MAX_LINE_LENGTH == 2000
MaxOffset == 5
MaxLimit == 2

\* str::lines(): split at '\n', a '\r' before the '\n' is dropped, and a
\* trailing '\n' does not start one more line
RECURSIVE str_lines(_)
str_lines(content) ==
    IF content = <<>> THEN <<>>
    ELSE LET nl == Find(content, "\n")
         IN  IF nl = 0 THEN <<content>>
             ELSE LET raw == SubSeq(content, 1, nl - 1)
                      line == IF raw # <<>> /\ raw[Len(raw)] = "\r"
                              THEN SubSeq(raw, 1, Len(raw) - 1) ELSE raw
                  IN  <<line>> \o str_lines(SubSeq(content, nl + 1, Len(content)))

\* [String]::join("\n")
RECURSIVE join_lines(_)
join_lines(ls) ==
    IF ls = <<>> THEN <<>>
    ELSE IF Len(ls) = 1 THEN ls[1]
    ELSE ls[1] \o <<"\n">> \o join_lines(Tail(ls))

usize_min(a, b) == IF a < b THEN a ELSE b

truncate_line(line) ==
    IF Len(line) > MAX_LINE_LENGTH
    THEN SubSeq(line, 1, MAX_LINE_LENGTH)
             \o <<".", ".", ".", " ", "[", "t", "r", "u", "n", "c", "a", "t", "e", "d", "]">>
    ELSE line

\* read_text_content(path, offset, limit) on a file with this content; the
\* slice lines[start_line..end_line] panics when start_line > end_line
read_text_content(content, offset, limit) ==
    LET ls == str_lines(content)
        total_lines == Len(ls)
        start_line == offset
        end_line == IF limit # None
                    THEN usize_min(start_line + limit[1], total_lines)
                    ELSE usize_min(total_lines, start_line + MAX_LINES_TO_READ)
    IN  IF start_line > end_line THEN [kind |-> "panic"]
        ELSE LET selected_lines ==
                     [i \in 1..(end_line - start_line) |-> truncate_line(ls[start_line + i])]
             IN  [kind |-> "ok",
                  file |-> [content |-> join_lines(selected_lines),
                            num_lines |-> Len(selected_lines),
                            start_line |-> offset + 1,
                            total_lines |-> total_lines]]

\* FileReadTool::call on a text file below the output limit
FileRead_call_text(content, input) ==
    LET offset == IF input.offset # None THEN input.offset[1] ELSE 1
        line_offset == IF offset = 0 THEN 0 ELSE offset - 1
    IN  read_text_content(content, line_offset, input.limit)

RdInit ==
    rd \in {[content |-> c, input |-> [offset |-> o, limit |-> l], outcome |-> None] :
               c \in Strings({"a", "b", "\n"}, MaxContentLen),
               o \in {None} \cup {Some(n) : n \in 0..MaxOffset},
               l \in {None} \cup {Some(n) : n \in 0..MaxLimit}}

RdCall ==
    /\ rd.outcome = None
    /\ rd' = [rd EXCEPT !.outcome = Some(FileRead_call_text(rd.content, rd.input))]

(***************************************************************************)
(* AgentRegistry (agents/mod.rs).  Each of the four agent directories      *)
(* holds at most one agent file; a definition is named by the directory it *)
(* was read from.  With the watcher on, every change of a file spawns a    *)
(* task that runs reload_agents; tasks run in parallel.                    *)
(***************************************************************************)
MaxReloads == 2

AgentDirs == <<"~/.claude/agents", "~/.kode/agents", "./.claude/agents", "./.kode/agents">>
AgentTypes == {"general-purpose", "reviewer"}

\* AgentLocation::priority
priority(location) ==
    CASE location = "BuiltIn" -> 0
      [] location = "UserClaude" -> 1
      [] location = "UserKode" -> 2
      [] location = "ProjectClaude" -> 3
      [] location = "ProjectKode" -> 4

\* agent_directories(): the user directories only when there is a home
agent_directories(home) ==
    (IF home THEN <<AgentDirs[1], AgentDirs[2]>> ELSE <<>>) \o <<AgentDirs[3], AgentDirs[4]>>

builtin_general_purpose ==
    [agent_type |-> "general-purpose", location |-> "BuiltIn", dir |-> "built-in"]

\* scan_agent_directory: the agents parsed from the files of one directory
scan_agent_directory(dir, location, disk) ==
    IF disk[dir] = None THEN <<>>
    ELSE <<[agent_type |-> disk[dir][1], location |-> location, dir |-> dir]>>

\* `dirs.into_iter().zip([UserClaude, UserKode, ProjectClaude, ProjectKode])`
\* and join_all: one result per directory, in the order of the directories
scan_all(home, disk) ==
    LET dirs == agent_directories(home)
        locations == <<"UserClaude", "UserKode", "ProjectClaude", "ProjectKode">>
    IN  [i \in 1..Len(dirs) |-> scan_agent_directory(dirs[i], locations[i], disk)]

\* `.entry(..).and_modify(replace if higher priority).or_insert(agent)`
RECURSIVE add_agents(_, _)
add_agents(agent_map, agents) ==
    IF agents = <<>> THEN agent_map
    ELSE LET agent == Head(agents)
             next ==
                 IF agent.agent_type \in DOMAIN agent_map
                 THEN IF priority(agent.location) > priority(agent_map[agent.agent_type].location)
                      THEN MapInsert(agent_map, agent.agent_type, agent)
                      ELSE agent_map
                 ELSE MapInsert(agent_map, agent.agent_type, agent)
         IN  add_agents(next, Tail(agents))

RECURSIVE Flatten(_)
Flatten(lists) == IF lists = <<>> THEN <<>> ELSE Head(lists) \o Flatten(Tail(lists))

\* the agent_map reload_agents builds from what it scanned
build_agent_map(home, disk) ==
    add_agents(MapInsert(EmptyMap, "general-purpose", builtin_general_purpose),
               Flatten(scan_all(home, disk)))

AgentDisks(home) ==
    {d \in [{AgentDirs[i] : i \in 1..4} -> {None} \cup {Some(t) : t \in AgentTypes}] :
        ~home => (d[AgentDirs[1]] = None /\ d[AgentDirs[2]] = None)}

\* AgentRegistry::new(true): the first reload is over and the watcher is set
RegInit ==
    reg \in UNION {{[home |-> h, disk |-> d, agents |-> build_agent_map(h, d), tasks |-> <<>>] :
                       d \in AgentDisks(h)} : h \in BOOLEAN}

\* a file of an agent directory is written or removed; the watcher's callback
\* spawns a task running reload_agents
RegFileEvent(dir, content) ==
    /\ Len(reg.tasks) < MaxReloads
    /\ \E k \in 1..Len(agent_directories(reg.home)) : agent_directories(reg.home)[k] = dir
    /\ reg.disk[dir] # content
    /\ reg' = [reg EXCEPT !.disk[dir] = content,
                          !.tasks = Append(@, [pc |-> "scan", agent_map |-> EmptyMap])]

\* one more event for a change already made (a write is reported as several)
RegRepeatedEvent ==
    /\ Len(reg.tasks) < MaxReloads
    /\ reg.tasks # <<>>
    /\ reg' = [reg EXCEPT !.tasks = Append(@, [pc |-> "scan", agent_map |-> EmptyMap])]

\* reload_agents up to `agents.write().await`: scan and build the map
RegScan(i) ==
    /\ i \in 1..Len(reg.tasks) /\ reg.tasks[i].pc = "scan"
    /\ reg' = [reg EXCEPT !.tasks[i] = [pc |-> "write",
                                        agent_map |-> build_agent_map(reg.home, reg.disk)]]

\* reload_agents from the write lock on: `*cache = agent_map`
RegWrite(i) ==
    /\ i \in 1..Len(reg.tasks) /\ reg.tasks[i].pc = "write"
    /\ reg' = [reg EXCEPT !.agents = reg.tasks[i].agent_map,
                          !.tasks[i] = [pc |-> "done", agent_map |-> EmptyMap]]

(***************************************************************************)
(* BashTool::call and the two pipes of its subprocess.  The subprocess     *)
(* runs a program, a sequence of line writes to stdout or stderr; a write  *)
(* blocks while the pipe it goes to is full, and the subprocess exits,     *)
(* closing both pipes, after its last write.  A pipe holds PipeCapacity    *)
(* lines.                                                                  *)
(***************************************************************************)
PipeCapacity == 2
MaxWrites == 4

SubPrograms == UNION {[1..n -> {"stdout", "stderr"}] : n \in 0..MaxWrites}

\* the lines the program writes to one stream, in order
RECURSIVE written_to(_, _, _)
written_to(program, stream, k) ==
    IF k > Len(program) THEN <<>>
    ELSE (IF program[k] = stream THEN <<k>> ELSE <<>>) \o written_to(program, stream, k + 1)

\* `Command::new("sh")... .stdout(Stdio::piped()).stderr(Stdio::piped()).spawn()`
SubInit ==
    sub \in {[program |-> p, next |-> 1, exited |-> FALSE,
              stdout |-> <<>>, stderr |-> <<>>,
              pc |-> "read_stdout", stdout_lines_vec |-> <<>>, stderr_lines_vec |-> <<>>,
              exit_code |-> None, interrupted |-> FALSE] : p \in SubPrograms}

\* the subprocess writes its next line; the write blocks on a full pipe
PipeWrite ==
    /\ ~sub.exited /\ sub.next <= Len(sub.program)
    /\ LET stream == sub.program[sub.next]
       IN  /\ Len(sub[stream]) < PipeCapacity
           /\ sub' = [sub EXCEPT ![stream] = Append(@, sub.next), !.next = @ + 1]

\* the subprocess is through its program and exits; both pipes are closed
PipeExit ==
    /\ ~sub.exited /\ sub.next > Len(sub.program)
    /\ sub' = [sub EXCEPT !.exited = TRUE]

\* `while let Ok(Some(line)) = stdout_reader_lines.next_line().await`
CallReadStdout ==
    /\ sub.pc = "read_stdout"
    /\ \/ /\ sub.stdout # <<>>
          /\ sub' = [sub EXCEPT !.stdout = Tail(@),
                                !.stdout_lines_vec = Append(@, Head(sub.stdout))]
       \/ /\ sub.stdout = <<>> /\ sub.exited
          /\ sub' = [sub EXCEPT !.pc = "read_stderr"]

\* `while let Ok(Some(line)) = stderr_reader_lines.next_line().await`
CallReadStderr ==
    /\ sub.pc = "read_stderr"
    /\ \/ /\ sub.stderr # <<>>
          /\ sub' = [sub EXCEPT !.stderr = Tail(@),
                                !.stderr_lines_vec = Append(@, Head(sub.stderr))]
       \/ /\ sub.stderr = <<>> /\ sub.exited
          /\ sub' = [sub EXCEPT !.pc = "wait"]

\* `tokio::time::timeout(timeout, child.wait()).await` on an exited child
CallWait ==
    /\ sub.pc = "wait" /\ sub.exited
    /\ sub' = [sub EXCEPT !.pc = "done", !.exit_code = Some(0)]

SubStep == PipeWrite \/ PipeExit \/ CallReadStdout \/ CallReadStderr \/ CallWait

(***************************************************************************)
(* AnthropicAdapter::process_stream over the bytes of a response body.     *)
(* A byte is a one-character string for an ASCII character; "C3" and "A9"  *)
(* are the two bytes of the character "é".  The JSON document of a record  *)
(* is written as one letter: S message_start, T<text> a text_delta for     *)
(* index 0, M message_stop.                                                *)
(***************************************************************************)
MaxWireChunks == 3

WireRecord(doc) == <<"d", "a", "t", "a", ":">> \o doc \o <<"\n", "\n">>
WireBodies ==
    { WireRecord(<<"S">>) \o WireRecord(<<"T", "C3", "A9">>),
      WireRecord(<<"S">>) \o WireRecord(<<"T", "a">>) \o WireRecord(<<"T", "C3", "A9">>) }

\* std::str::from_utf8: None when the bytes are not valid UTF-8
RECURSIVE from_utf8(_)
from_utf8(bytes) ==
    IF bytes = <<>> THEN Some(<<>>)
    ELSE IF Head(bytes) = "C3"
         THEN IF Len(bytes) >= 2 /\ bytes[2] = "A9"
              THEN LET rest == from_utf8(SubSeq(bytes, 3, Len(bytes)))
                   IN  IF rest = None THEN None ELSE Some(<<"é">> \o rest[1])
              ELSE None
         ELSE IF Head(bytes) = "A9" THEN None
         ELSE LET rest == from_utf8(Tail(bytes))
              IN  IF rest = None THEN None ELSE Some(<<Head(bytes)>> \o rest[1])

\* serde_json::from_str::<AnthropicStreamEvent>(&event.data)
from_str_stream_event(data) ==
    CASE data = <<"S">> ->
             [type |-> "message_start",
              message |-> [id |-> "msg_1", usage |-> [input_tokens |-> 10, output_tokens |-> 0]]]
      [] data = <<"M">> -> [type |-> "message_stop"]
      [] Len(data) >= 1 /\ data[1] = "T" ->
             [type |-> "content_block_delta", index |-> 0,
              delta |-> [type |-> "text_delta", text |-> Tail(data)]]
      [] OTHER -> [type |-> "malformed"]

\* one turn of the `while let Some(chunk_result) = byte_stream.next().await`
\* loop on Ok(bytes)
process_stream_chunk(st, bytes) ==
    LET text == from_utf8(bytes)
    IN  IF text = None
        THEN [st EXCEPT !.out = Append(@, ErrorItem("utf8"))]
        ELSE LET p == parse_chunk(st.parser, text[1])
                 events == [i \in 1..Len(p.events) |-> from_str_stream_event(p.events[i].data)]
                 r == process_chunk(st.handler, events)
             IN  [st EXCEPT !.parser = p.parser,
                            !.handler = r.h,
                            !.out = IF r.res = "err" THEN Append(@, ErrorItem("assembler")) ELSE @,
                            !.pc = IF r.res = "false" THEN "loop" ELSE "final"]

\* the code after the loop
process_stream_final(st) ==
    LET m == get_message(st.handler, 1, 1)
    IN  [st EXCEPT !.pc = "done",
                   !.out = IF m # None
                           THEN @ \o BlockItems(m[1].message.content) \o <<DoneItem(st.handler)>>
                           ELSE Append(@, ErrorItem("no_metadata"))]

WireNew(b) ==
    [body |-> b, pos |-> 0, chunks |-> 0, parser |-> SseParserNew,
     handler |-> AnthropicStreamHandlerNew, out |-> <<>>, pc |-> "loop"]

\* the items of the stream when the transport delivers the body in one chunk
process_stream_whole(b) ==
    process_stream_final(process_stream_chunk(WireNew(b), b)).out

WireInit == wire \in {WireNew(b) : b \in WireBodies}

\* byte_stream.next() = Some(Ok(bytes)): the next n bytes of the body
WireRecv(n) ==
    /\ wire.pc = "loop"
    /\ wire.chunks < MaxWireChunks
    /\ wire.pos + n <= Len(wire.body)
    /\ wire' = [process_stream_chunk(wire, SubSeq(wire.body, wire.pos + 1, wire.pos + n))
                    EXCEPT !.pos = wire.pos + n, !.chunks = wire.chunks + 1]

\* byte_stream.next() = None after the last byte
WireEnd ==
    /\ wire.pc = "loop"
    /\ wire.pos = Len(wire.body)
    /\ wire' = [wire EXCEPT !.pc = "final"]

WireFinalize ==
    /\ wire.pc = "final"
    /\ wire' = process_stream_final(wire)

(***************************************************************************)
(* UrlCache and UrlFetcherTool::call (tools/url_fetcher.rs).  Time is in   *)
(* seconds; the clock moves in steps of half the cache duration.           *)
(***************************************************************************)
CACHE_DURATION == 15 * 60
MaxCacheTicks == 4

CacheUrls == {"https://a", "https://b"}
CacheContents == {"one", "two"}
CacheSteps == {CACHE_DURATION \div 2, CACHE_DURATION}

\* UrlCache::get at the instant t
UrlCache_get(entries, url, t) ==
    IF url \notin DOMAIN entries THEN None
    ELSE IF t < entries[url].timestamp THEN None          \* duration_since(..).ok()?
    ELSE IF t - entries[url].timestamp > CACHE_DURATION THEN None
    ELSE Some(entries[url].content)

\* UrlCache::set at the instant t
UrlCache_set(entries, url, content, t) ==
    MapInsert(entries, url, [content |-> content, timestamp |-> t])

\* UrlCache::clean_expired at the instant t
UrlCache_clean_expired(entries, t) ==
    LET kept == {u \in DOMAIN entries :
                    t >= entries[u].timestamp /\ t - entries[u].timestamp < CACHE_DURATION}
    IN  [u \in kept |-> entries[u]]

\* `static URL_CACHE: Lazy<UrlCache>`: empty at first
CacheInit ==
    cache = [now |-> 0, entries |-> EmptyMap, stored |-> EmptyMap, last |-> [op |-> "none"]]

\* time passes
CacheAdvance(d) ==
    /\ cache.now + d <= MaxCacheTicks * (CACHE_DURATION \div 2)
    /\ cache' = [cache EXCEPT !.now = @ + d, !.last = [op |-> "none"]]

CacheSet(url, content) ==
    cache' = [cache EXCEPT
                 !.entries = UrlCache_set(@, url, content, cache.now),
                 !.stored = MapInsert(@, url, [content |-> content, at |-> cache.now]),
                 !.last = [op |-> "set"]]

CacheGet(url) ==
    cache' = [cache EXCEPT
                 !.last = [op |-> "get", url |-> url,
                           result |-> UrlCache_get(cache.entries, url, cache.now)]]

CacheCleanExpired ==
    cache' = [cache EXCEPT
                 !.entries = UrlCache_clean_expired(@, cache.now),
                 !.last = [op |-> "clean", before |-> cache.entries]]

\* UrlFetcherTool::call up to the use of the cache: clean_expired, get, and
\* after a fetch that returned `fetched` set
UrlFetcher_call(url, fetched) ==
    LET cleaned == UrlCache_clean_expired(cache.entries, cache.now)
        cached == UrlCache_get(cleaned, url, cache.now)
    IN  cache' = [cache EXCEPT
                     !.entries = IF cached # None THEN cleaned
                                 ELSE UrlCache_set(cleaned, url, fetched, cache.now),
                     !.stored = IF cached # None THEN @
                                ELSE MapInsert(@, url, [content |-> fetched, at |-> cache.now]),
                     !.last = [op |-> "call", url |-> url, from_cache |-> cached # None,
                               content |-> IF cached # None THEN cached[1] ELSE fetched]]

(***************************************************************************)
(* The TUI App (tui/app.rs) with the tasks start_streaming spawns and the  *)
(* unbounded channel they send AppEvents on.  Stream k is the one started  *)
(* by the k-th submit that spawned a task; its text chunks carry the text  *)
(* <<k>>.  A message and an event record which stream they belong to.      *)
(***************************************************************************)
MaxSubmits == 2
MaxStreamChunks == 1

UserMessage(text) ==
    [role |-> "user", content |-> <<[type |-> "text", text |-> text]>>, stream |-> 0]

\* App::new
AppInit ==
    app = [messages |-> <<>>, input_buffer |-> <<>>, is_loading |-> FALSE,
           should_quit |-> FALSE, current_stream |-> None,
           tasks |-> <<>>, channel |-> <<>>, submits |-> 0, returned_err |-> FALSE,
           last |-> [type |-> "none", stream |-> 0, stale |-> FALSE, superseded |-> FALSE,
                     modified |-> FALSE, target |-> 0, cleared |-> FALSE]]

\* the run loop of run_app is still going
AppRunning == ~app.should_quit /\ ~app.returned_err

\* a stream the app started, not cancelled, whose StreamComplete has not been
\* handled yet
InFlight(k) ==
    /\ k \in 1..Len(app.tasks)
    /\ ~app.tasks[k].cancelled
    /\ ~app.tasks[k].complete_handled

\* handle_key_event, KeyCode::Char(c)
AppKeyChar ==
    /\ AppRunning
    /\ app.input_buffer = <<>>
    /\ app' = [app EXCEPT !.input_buffer = <<0>>, !.last.type = "none"]

\* handle_key_event, KeyCode::Enter: submit_prompt and start_streaming;
\* `started` tells whether adapter.stream_complete returned Ok
AppKeyEnter(started) ==
    /\ AppRunning
    /\ app.submits < MaxSubmits
    /\ IF app.input_buffer = <<>>
       THEN app' = [app EXCEPT !.last.type = "none"]
       ELSE LET k == Len(app.tasks) + 1
                assistant_message ==
                    [role |-> "assistant", content |-> <<>>,
                     stream |-> IF started THEN k ELSE 0]
                pushed == app.messages \o <<UserMessage(app.input_buffer), assistant_message>>
            IN  IF started
                THEN app' = [app EXCEPT
                                !.input_buffer = <<>>,
                                !.messages = pushed,
                                !.is_loading = TRUE,
                                !.tasks = Append(@, [sent |-> 0, state |-> "running",
                                                     cancelled |-> FALSE,
                                                     complete_handled |-> FALSE]),
                                !.current_stream = Some(k),
                                !.submits = @ + 1,
                                !.last.type = "none"]
                ELSE app' = [app EXCEPT
                                !.input_buffer = <<>>,
                                !.messages = pushed,
                                !.is_loading = TRUE,
                                !.submits = @ + 1,
                                !.returned_err = TRUE,
                                !.last.type = "none"]

\* handle_key_event, KeyCode::Esc: cancel_stream while loading, else quit
AppKeyEsc ==
    /\ AppRunning
    /\ IF app.is_loading
       THEN app' = [app EXCEPT
                       !.tasks = IF app.current_stream # None
                                 THEN [@ EXCEPT ![app.current_stream[1]] =
                                          [@ EXCEPT !.cancelled = TRUE, !.state = "ended"]]
                                 ELSE @,
                       !.current_stream = None,
                       !.is_loading = FALSE,
                       !.last.type = "none"]
       ELSE app' = [app EXCEPT !.should_quit = TRUE, !.last.type = "none"]

AppEvent(type, k) == [type |-> type, stream |-> k]

\* the spawned task: `stream.next()` gave Ok(chunk), which is sent
TaskSendChunk(k) ==
    /\ k \in 1..Len(app.tasks)
    /\ app.tasks[k].state = "running"
    /\ app.tasks[k].sent < MaxStreamChunks
    /\ app' = [app EXCEPT !.tasks[k].sent = @ + 1,
                          !.channel = Append(@, AppEvent("StreamChunk", k)),
                          !.last.type = "none"]

\* the spawned task: the stream ended, or gave Err(e), which is sent first;
\* then StreamComplete is sent and the task is over
TaskFinish(k, error) ==
    /\ k \in 1..Len(app.tasks)
    /\ app.tasks[k].state = "running"
    /\ app' = [app EXCEPT !.tasks[k].state = "ended",
                          !.channel = @ \o (IF error THEN <<AppEvent("StreamError", k)>> ELSE <<>>)
                                        \o <<AppEvent("StreamComplete", k)>>,
                          !.last.type = "none"]

\* handle_stream_chunk for a TextDelta with the text `text`
handle_stream_chunk(messages, text) ==
    IF messages = <<>> \/ messages[Len(messages)].role # "assistant" THEN messages
    ELSE LET n == Len(messages)
             content == messages[n].content
             m == Len(content)
         IN  IF m > 0 /\ content[m].type = "text"
             THEN [messages EXCEPT ![n].content[m].text = @ \o text]
             ELSE [messages EXCEPT ![n].content = Append(@, [type |-> "text", text |-> text])]

\* run_app takes the next AppEvent off the channel: handle_app_event
AppHandleEvent ==
    /\ AppRunning
    /\ app.channel # <<>>
    /\ LET ev == Head(app.channel)
           k == ev.stream
           latest == Len(app.tasks)
           messages ==
               CASE ev.type = "StreamChunk" -> handle_stream_chunk(app.messages, <<k>>)
                 [] ev.type = "StreamError" -> Append(app.messages, UserMessage(<<"E">>))
                 [] OTHER -> app.messages
           clears == ev.type \in {"StreamComplete", "StreamError"}
       IN  app' = [app EXCEPT
                      !.channel = Tail(@),
                      !.messages = messages,
                      !.is_loading = IF clears THEN FALSE ELSE @,
                      !.current_stream = IF clears THEN None ELSE @,
                      !.tasks[k].complete_handled = @ \/ ev.type = "StreamComplete",
                      !.last = [type |-> ev.type, stream |-> k,
                                stale |-> app.tasks[k].cancelled \/ k < latest,
                                superseded |-> k < latest /\ InFlight(latest),
                                modified |-> ev.type = "StreamChunk" /\ messages # app.messages,
                                target |-> IF app.messages = <<>> THEN 0
                                           ELSE app.messages[Len(app.messages)].stream,
                                cleared |-> clears /\ app.is_loading]]

\* no stream handler under observation
ObsIdle == oai = <<>> /\ obs = <<>>
YIdle == ObsIdle /\ ins = <<>> /\ fl = <<>> /\ search = <<>> /\ factory = <<>> /\ net = <<>>
ZIdle ==
    /\ rd = <<>> /\ reg = <<>> /\ sub = <<>> /\ wire = <<>> /\ cache = <<>> /\ app = <<>>

(***************************************************************************)
(* Specifications                                                          *)
(***************************************************************************)
\* the SSE parser fed an SSE text in arbitrary chunks
InitSse == SseInit /\ AIdle /\ SIdle /\ TIdle /\ XIdle /\ YIdle /\ ZIdle
NextSse ==
    \/ \E n \in 1..Len(sse_text) : SseFeed(n) /\ UNCHANGED <<a_vars, s_vars, t_vars, x_vars, y_vars, z_vars>>
    \/ SseFlush /\ UNCHANGED <<a_vars, s_vars, t_vars, x_vars, y_vars, z_vars>>
SpecSse == InitSse /\ [][NextSse]_vars

\* the dialect A handler fed arbitrary chunks of events
InitA == SseIdle /\ AIdle /\ SIdle /\ TIdle /\ XIdle /\ YIdle /\ ZIdle
NextA ==
    \/ \E events \in StreamChunks : AFeed(events) /\ UNCHANGED <<sse_vars, s_vars, t_vars, x_vars, y_vars, z_vars>>
    \/ AGetMessage /\ UNCHANGED <<sse_vars, s_vars, t_vars, x_vars, y_vars, z_vars>>
SpecA == InitA /\ [][NextA]_vars

\* the Anthropic adapter's stream over every response body
InitStream == SseIdle /\ AIdle /\ SInit /\ TIdle /\ XIdle /\ YIdle /\ ZIdle
NextStream ==
    \/ \E events \in StreamChunks : SRecvChunk(events) /\ UNCHANGED <<sse_vars, t_vars, x_vars, y_vars, z_vars>>
    \/ SRecvInvalidUtf8 /\ UNCHANGED <<sse_vars, t_vars, x_vars, y_vars, z_vars>>
    \/ SRecvTransportError /\ UNCHANGED <<sse_vars, t_vars, x_vars, y_vars, z_vars>>
    \/ SRecvEnd /\ UNCHANGED <<sse_vars, t_vars, x_vars, y_vars, z_vars>>
    \/ SFinalize /\ UNCHANGED <<sse_vars, t_vars, x_vars, y_vars, z_vars>>
SpecStream == InitStream /\ [][NextStream]_vars

\* the file tools driven by a caller that holds one ToolContext
InitTools == SseIdle /\ AIdle /\ SIdle /\ TInit /\ XIdle /\ YIdle /\ ZIdle
NextTools ==
    \/ (\E tool \in ToolNames : \E input \in ToolInputs(tool, fs) : TValidate(tool, input))
           /\ UNCHANGED <<sse_vars, a_vars, s_vars, x_vars, y_vars, z_vars>>
    \/ (\E tool \in ToolNames : \E input \in ToolInputs(tool, fs) :
           \E t \in now..MaxClock : \E io_ok \in BOOLEAN : TCall(tool, input, t, io_ok))
           /\ UNCHANGED <<sse_vars, a_vars, s_vars, x_vars, y_vars, z_vars>>
    \/ (\E p \in Paths : TRecordRead(p))
           /\ UNCHANGED <<sse_vars, a_vars, s_vars, x_vars, y_vars, z_vars>>
    \/ (\E p \in DOMAIN fs : \E content \in FileContents : \E t \in now..MaxClock :
           TExternalModify(p, content, t))
           /\ UNCHANGED <<sse_vars, a_vars, s_vars, x_vars, y_vars, z_vars>>
SpecTools == InitTools /\ [][NextTools]_vars

\* one validated FileEdit / FileWrite request on a file the caller has read
InitRequest == SseIdle /\ AIdle /\ SIdle /\ EInit /\ XIdle /\ YIdle /\ ZIdle
NextRequest ==
    \/ (\E tool \in {"FileEdit", "FileWrite"} : \E input \in RequestInputs(tool) :
           EValidate(tool, input))
           /\ UNCHANGED <<sse_vars, a_vars, s_vars, x_vars, y_vars, z_vars>>
    \/ (\E t \in now..MaxClock : \E io_ok \in BOOLEAN : ECall(t, io_ok))
           /\ UNCHANGED <<sse_vars, a_vars, s_vars, x_vars, y_vars, z_vars>>
SpecRequest == InitRequest /\ [][NextRequest]_vars

\* a caller validating and calling the Bash tool, and the subprocess
InitBash == SseIdle /\ AIdle /\ SIdle /\ TIdle /\ RunningIdle /\ TsIdle /\ BashInit /\ MemIdle /\ YIdle /\ ZIdle
BashCallStep == BReadStdout \/ BReadStderr \/ BWaitExited \/ BWaitTimeout
NextBash ==
    \/ (\E input \in BashInputs : BValidate(input)) /\ UNCHANGED <<sse_vars, a_vars, s_vars, t_vars, running, ts, mem, y_vars, z_vars>>
    \/ (\E input \in BashInputs : \E spawn_ok \in BOOLEAN : \E on_its_own \in BOOLEAN :
           BCallSpawn(input, spawn_ok, on_its_own)) /\ UNCHANGED <<sse_vars, a_vars, s_vars, t_vars, running, ts, mem, y_vars, z_vars>>
    \/ (\E pipe \in {"stdout_open", "stderr_open"} : PClose(pipe)) /\ UNCHANGED <<sse_vars, a_vars, s_vars, t_vars, running, ts, mem, y_vars, z_vars>>
    \/ PExit /\ UNCHANGED <<sse_vars, a_vars, s_vars, t_vars, running, ts, mem, y_vars, z_vars>>
    \/ BReadStdout /\ UNCHANGED <<sse_vars, a_vars, s_vars, t_vars, running, ts, mem, y_vars, z_vars>>
    \/ BReadStderr /\ UNCHANGED <<sse_vars, a_vars, s_vars, t_vars, running, ts, mem, y_vars, z_vars>>
    \/ BWaitExited /\ UNCHANGED <<sse_vars, a_vars, s_vars, t_vars, running, ts, mem, y_vars, z_vars>>
    \/ BWaitTimeout /\ UNCHANGED <<sse_vars, a_vars, s_vars, t_vars, running, ts, mem, y_vars, z_vars>>
SpecBash == InitBash /\ [][NextBash]_vars
\* the runtime keeps polling the call (its reads, its wait and its timer)
FairSpecBash ==
    SpecBash /\ WF_vars(BashCallStep /\ UNCHANGED <<sse_vars, a_vars, s_vars, t_vars, running, ts, mem, y_vars, z_vars>>)

\* one request to a memory tool: validate_input, then call if it passed
InitMemory == SseIdle /\ AIdle /\ SIdle /\ TIdle /\ RunningIdle /\ TsIdle /\ BashIdle /\ MemInit /\ YIdle /\ ZIdle
NextMemory ==
    \/ (\E tool \in {"MemoryRead", "MemoryWrite"} :
           \E file_path \in {None} \cup {Some(p) : p \in MemoryPaths} :
              MValidate(tool, file_path)) /\ UNCHANGED <<sse_vars, a_vars, s_vars, t_vars, running, ts, bash, y_vars, z_vars>>
    \/ MCall /\ UNCHANGED <<sse_vars, a_vars, s_vars, t_vars, running, ts, bash, y_vars, z_vars>>
SpecMemory == InitMemory /\ [][NextMemory]_vars

\* a stream handler of dialect A or B fed chunks, get_message() at any time
InitAssembly ==
    /\ SseIdle /\ AIdle /\ SIdle /\ TIdle /\ XIdle /\ ObsInit
    /\ ins = <<>> /\ fl = <<>> /\ search = <<>> /\ factory = <<>> /\ net = <<>> /\ ZIdle
NextAssembly ==
    \/ (\E events \in AnthropicChunks \cup OpenAIChunks :
           /\ (obs.dialect = "A") = (events \in AnthropicChunks)
           /\ ObsFeed(events))
           /\ UNCHANGED <<sse_vars, s_vars, t_vars, x_vars, ins, fl, search, factory, net, z_vars>>
    \/ ObsGetMessage
           /\ UNCHANGED <<sse_vars, s_vars, t_vars, x_vars, ins, fl, search, factory, net, z_vars>>
SpecAssembly == InitAssembly /\ [][NextAssembly]_vars

\* an SSE text with inert lines inserted at line boundaries
InitInert ==
    /\ SseIdle /\ AIdle /\ SIdle /\ TIdle /\ XIdle /\ ObsIdle /\ InsInit
    /\ fl = <<>> /\ search = <<>> /\ factory = <<>> /\ net = <<>> /\ ZIdle
NextInert ==
    \/ InsParseOriginal
           /\ UNCHANGED <<sse_vars, a_vars, s_vars, t_vars, x_vars, oai, obs, fl, search, factory, net, z_vars>>
    \/ (\E line \in InertLines : \E at \in 0..Len(ins.text) : InsInsert(at, line))
           /\ UNCHANGED <<sse_vars, a_vars, s_vars, t_vars, x_vars, oai, obs, fl, search, factory, net, z_vars>>
SpecInert == InitInert /\ [][NextInert]_vars

\* a parser whose stream stops anywhere, flushed, then fed again
InitFlush ==
    /\ SseIdle /\ AIdle /\ SIdle /\ TIdle /\ XIdle /\ ObsIdle /\ FlInit
    /\ ins = <<>> /\ search = <<>> /\ factory = <<>> /\ net = <<>> /\ ZIdle
NextFlush ==
    \/ FlConsume
           /\ UNCHANGED <<sse_vars, a_vars, s_vars, t_vars, x_vars, oai, obs, ins, search, factory, net, z_vars>>
    \/ FlFlush
           /\ UNCHANGED <<sse_vars, a_vars, s_vars, t_vars, x_vars, oai, obs, ins, search, factory, net, z_vars>>
    \/ (\E input \in SsePieces : FlLater(input))
           /\ UNCHANGED <<sse_vars, a_vars, s_vars, t_vars, x_vars, oai, obs, ins, search, factory, net, z_vars>>
SpecFlush == InitFlush /\ [][NextFlush]_vars

\* one Glob or Grep search over a tree in which any number of files match
InitSearch ==
    /\ SseIdle /\ AIdle /\ SIdle /\ TIdle /\ XIdle /\ ObsIdle /\ SearchInit
    /\ ins = <<>> /\ fl = <<>> /\ factory = <<>> /\ net = <<>> /\ ZIdle
NextSearch ==
    (\E rg_ok \in BOOLEAN : SearchCall(rg_ok))
        /\ UNCHANGED <<sse_vars, a_vars, s_vars, t_vars, x_vars, oai, obs, ins, fl, factory, net, z_vars>>
SpecSearch == InitSearch /\ [][NextSearch]_vars

\* ModelAdapterFactory::create on every model profile
InitFactory ==
    /\ SseIdle /\ AIdle /\ SIdle /\ TIdle /\ XIdle /\ ObsIdle /\ FactoryInit
    /\ ins = <<>> /\ fl = <<>> /\ search = <<>> /\ net = <<>> /\ ZIdle
NextFactory ==
    (\E env_key \in {None, Some(<<"e">>)} : FactoryCreate(env_key))
        /\ UNCHANGED <<sse_vars, a_vars, s_vars, t_vars, x_vars, oai, obs, ins, fl, search, net, z_vars>>
SpecFactory == InitFactory /\ [][NextFactory]_vars

\* two calls of one adapter operation, each under any fate of the exchange
InitNet ==
    /\ SseIdle /\ AIdle /\ SIdle /\ TIdle /\ XIdle /\ ObsIdle /\ NetInit
    /\ ins = <<>> /\ fl = <<>> /\ search = <<>> /\ factory = <<>> /\ ZIdle
NextNet ==
    \/ NetFirstCall
           /\ UNCHANGED <<sse_vars, a_vars, s_vars, t_vars, x_vars, oai, obs, ins, fl, search, factory, z_vars>>
    \/ NetSecondCall
           /\ UNCHANGED <<sse_vars, a_vars, s_vars, t_vars, x_vars, oai, obs, ins, fl, search, factory, z_vars>>
SpecNet == InitNet /\ [][NextNet]_vars

\* FileRead of a text file with any offset and limit
InitRead ==
    /\ SseIdle /\ AIdle /\ SIdle /\ TIdle /\ XIdle /\ YIdle /\ RdInit
    /\ reg = <<>> /\ sub = <<>> /\ wire = <<>> /\ cache = <<>> /\ app = <<>>
NextRead ==
    RdCall /\ UNCHANGED <<sse_vars, a_vars, s_vars, t_vars, x_vars, y_vars,
                          reg, sub, wire, cache, app>>
SpecRead == InitRead /\ [][NextRead]_vars

\* the agent registry, its reloads and the files changing under it
InitRegistry ==
    /\ SseIdle /\ AIdle /\ SIdle /\ TIdle /\ XIdle /\ YIdle /\ RegInit
    /\ rd = <<>> /\ sub = <<>> /\ wire = <<>> /\ cache = <<>> /\ app = <<>>
NextRegistry ==
    \/ (\E i \in 1..4 : \E content \in {None} \cup {Some(t) : t \in AgentTypes} :
           RegFileEvent(AgentDirs[i], content))
           /\ UNCHANGED <<sse_vars, a_vars, s_vars, t_vars, x_vars, y_vars, rd, sub, wire, cache, app>>
    \/ RegRepeatedEvent
           /\ UNCHANGED <<sse_vars, a_vars, s_vars, t_vars, x_vars, y_vars, rd, sub, wire, cache, app>>
    \/ (\E i \in 1..MaxReloads : RegScan(i))
           /\ UNCHANGED <<sse_vars, a_vars, s_vars, t_vars, x_vars, y_vars, rd, sub, wire, cache, app>>
    \/ (\E i \in 1..MaxReloads : RegWrite(i))
           /\ UNCHANGED <<sse_vars, a_vars, s_vars, t_vars, x_vars, y_vars, rd, sub, wire, cache, app>>
SpecRegistry == InitRegistry /\ [][NextRegistry]_vars

\* one Bash call and its subprocess
InitPipes ==
    /\ SseIdle /\ AIdle /\ SIdle /\ TIdle /\ XIdle /\ YIdle /\ SubInit
    /\ rd = <<>> /\ reg = <<>> /\ wire = <<>> /\ cache = <<>> /\ app = <<>>
NextPipes ==
    \/ PipeWrite
           /\ UNCHANGED <<sse_vars, a_vars, s_vars, t_vars, x_vars, y_vars, rd, reg, wire, cache, app>>
    \/ PipeExit
           /\ UNCHANGED <<sse_vars, a_vars, s_vars, t_vars, x_vars, y_vars, rd, reg, wire, cache, app>>
    \/ CallReadStdout
           /\ UNCHANGED <<sse_vars, a_vars, s_vars, t_vars, x_vars, y_vars, rd, reg, wire, cache, app>>
    \/ CallReadStderr
           /\ UNCHANGED <<sse_vars, a_vars, s_vars, t_vars, x_vars, y_vars, rd, reg, wire, cache, app>>
    \/ CallWait
           /\ UNCHANGED <<sse_vars, a_vars, s_vars, t_vars, x_vars, y_vars, rd, reg, wire, cache, app>>
SpecPipes == InitPipes /\ [][NextPipes]_vars

\* a response body delivered by the transport in chunks of its choice
InitWire ==
    /\ SseIdle /\ AIdle /\ SIdle /\ TIdle /\ XIdle /\ YIdle /\ WireInit
    /\ rd = <<>> /\ reg = <<>> /\ sub = <<>> /\ cache = <<>> /\ app = <<>>
NextWire ==
    \/ (\E n \in 1..Len(wire.body) : WireRecv(n))
           /\ UNCHANGED <<sse_vars, a_vars, s_vars, t_vars, x_vars, y_vars, rd, reg, sub, cache, app>>
    \/ WireEnd
           /\ UNCHANGED <<sse_vars, a_vars, s_vars, t_vars, x_vars, y_vars, rd, reg, sub, cache, app>>
    \/ WireFinalize
           /\ UNCHANGED <<sse_vars, a_vars, s_vars, t_vars, x_vars, y_vars, rd, reg, sub, cache, app>>
SpecWire == InitWire /\ [][NextWire]_vars

\* the URL cache used over time
InitCache ==
    /\ SseIdle /\ AIdle /\ SIdle /\ TIdle /\ XIdle /\ YIdle /\ CacheInit
    /\ rd = <<>> /\ reg = <<>> /\ sub = <<>> /\ wire = <<>> /\ app = <<>>
NextCache ==
    \/ (\E d \in CacheSteps : CacheAdvance(d))
           /\ UNCHANGED <<sse_vars, a_vars, s_vars, t_vars, x_vars, y_vars, rd, reg, sub, wire, app>>
    \/ (\E url \in CacheUrls, content \in CacheContents : CacheSet(url, content))
           /\ UNCHANGED <<sse_vars, a_vars, s_vars, t_vars, x_vars, y_vars, rd, reg, sub, wire, app>>
    \/ (\E url \in CacheUrls : CacheGet(url))
           /\ UNCHANGED <<sse_vars, a_vars, s_vars, t_vars, x_vars, y_vars, rd, reg, sub, wire, app>>
    \/ CacheCleanExpired
           /\ UNCHANGED <<sse_vars, a_vars, s_vars, t_vars, x_vars, y_vars, rd, reg, sub, wire, app>>
    \/ (\E url \in CacheUrls, fetched \in CacheContents : UrlFetcher_call(url, fetched))
           /\ UNCHANGED <<sse_vars, a_vars, s_vars, t_vars, x_vars, y_vars, rd, reg, sub, wire, app>>
SpecCache == InitCache /\ [][NextCache]_vars

\* the TUI App driven by keys, its streaming tasks and its event channel
InitApp ==
    /\ SseIdle /\ AIdle /\ SIdle /\ TIdle /\ XIdle /\ YIdle /\ AppInit
    /\ rd = <<>> /\ reg = <<>> /\ sub = <<>> /\ wire = <<>> /\ cache = <<>>
NextApp ==
    \/ AppKeyChar
           /\ UNCHANGED <<sse_vars, a_vars, s_vars, t_vars, x_vars, y_vars, rd, reg, sub, wire, cache>>
    \/ (\E started \in BOOLEAN : AppKeyEnter(started))
           /\ UNCHANGED <<sse_vars, a_vars, s_vars, t_vars, x_vars, y_vars, rd, reg, sub, wire, cache>>
    \/ AppKeyEsc
           /\ UNCHANGED <<sse_vars, a_vars, s_vars, t_vars, x_vars, y_vars, rd, reg, sub, wire, cache>>
    \/ (\E k \in 1..MaxSubmits : TaskSendChunk(k))
           /\ UNCHANGED <<sse_vars, a_vars, s_vars, t_vars, x_vars, y_vars, rd, reg, sub, wire, cache>>
    \/ (\E k \in 1..MaxSubmits : \E error \in BOOLEAN : TaskFinish(k, error))
           /\ UNCHANGED <<sse_vars, a_vars, s_vars, t_vars, x_vars, y_vars, rd, reg, sub, wire, cache>>
    \/ AppHandleEvent
           /\ UNCHANGED <<sse_vars, a_vars, s_vars, t_vars, x_vars, y_vars, rd, reg, sub, wire, cache>>
SpecApp == InitApp /\ [][NextApp]_vars

\* invocations of one context started by a caller
InitRunning ==
    SseIdle /\ AIdle /\ SIdle /\ TIdle /\ RunningInit /\ TsIdle /\ BashIdle /\ MemIdle /\ YIdle /\ ZIdle
NextRunning ==
    \/ (\E k \in Slots : \E tool \in AllToolNames : RStart(k, tool))
           /\ UNCHANGED <<sse_vars, a_vars, s_vars, t_vars, ts, bash, mem, y_vars, z_vars>>
    \/ (\E k \in Slots : \E ok \in BOOLEAN : RReturn(k, ok))
           /\ UNCHANGED <<sse_vars, a_vars, s_vars, t_vars, ts, bash, mem, y_vars, z_vars>>
    \/ (\E k \in Slots : RStreamEnd(k))
           /\ UNCHANGED <<sse_vars, a_vars, s_vars, t_vars, ts, bash, mem, y_vars, z_vars>>
SpecRunning == InitRunning /\ [][NextRunning]_vars

\* one invocation of any tool, its stream polled to the end
InitToolStream ==
    SseIdle /\ AIdle /\ SIdle /\ TIdle /\ RunningIdle /\ TsInit /\ BashIdle /\ MemIdle /\ YIdle /\ ZIdle
NextToolStream ==
    \/ (\E tool \in AllToolNames : \E o \in Outcomes(tool) : TsCall(tool, o))
           /\ UNCHANGED <<sse_vars, a_vars, s_vars, t_vars, running, bash, mem, y_vars, z_vars>>
    \/ TsPoll /\ UNCHANGED <<sse_vars, a_vars, s_vars, t_vars, running, bash, mem, y_vars, z_vars>>
    \/ TsDrop /\ UNCHANGED <<sse_vars, a_vars, s_vars, t_vars, running, bash, mem, y_vars, z_vars>>
SpecToolStream == InitToolStream /\ [][NextToolStream]_vars

(***************************************************************************)
(* Claims                                                                  *)
(***************************************************************************)
\* C1: whatever the chunk boundaries, the events returned by the successive
\* parse_chunk calls, concatenated, are exactly the events one parse_chunk call
\* on a fresh parser returns for the text fed so far (same order, same fields).
C1_ChunkingInvariance ==
    sse_events = parse_chunk(SseParserNew, SubSeq(sse_text, 1, sse_pos)).events

\* a text of at least two records fed completely, one cut between CR and LF
C1_Witness ==
    /\ sse_pos = Len(sse_text)
    /\ sse_split.crlf
    /\ Len(sse_events) >= 2

\* C2: when content_block_stop{i} closes a tool_use block opened by
\* content_block_start{i}, and the fragments received for i in between decode
\* as JSON when concatenated in arrival order, the stop succeeds and the
\* block's input is that decoding; events for other indices do not matter.
C2_InputIsDecodedConcatenation ==
    \A i \in Indices :
        (a_stop[i].seen /\ JsonDecode(a_stop[i].text) # None)
            => /\ a_stop[i].ok
               /\ a_stop[i].input = JsonDecode(a_stop[i].text)[1]

\* a block closed after two or more fragment characters that decode to a number
C2_Witness ==
    \E i \in Indices :
        /\ a_stop[i].seen
        /\ a_stop[i].ok
        /\ Len(a_stop[i].text) >= 2
        /\ a_stop[i].input.kind = "number"

\* C3: when the text accumulated for a tool_use block does not decode as JSON
\* at content_block_stop{i} (the empty text included), the stop fails and
\* process_chunk returns an error for that chunk.
C3_UndecodableInputFails ==
    \A i \in Indices :
        (a_stop[i].seen /\ JsonDecode(a_stop[i].text) = None)
            => ~a_stop[i].ok /\ a_ret = "err"

\* a tool_use block closed without any fragment: the chunk failed
C3_Witness ==
    \E i \in Indices :
        /\ a_stop[i].seen
        /\ a_stop[i].text = <<>>
        /\ a_ret = "err"

\* C6 (as claimed): two get_message() calls in a row on a completed stream
\* return equal values, uuids included.
C6_GetMessageTwiceEqual ==
    (a_ret = "ok_true" /\ Len(a_msgs) = 2) => a_msgs[1] = a_msgs[2]

\* C4 (as claimed): in the adapter's chunk sequence nothing follows an error item.
C4_ErrorIsTerminal ==
    \A k \in 1..Len(s_out) : s_out[k].type = "Error" => k = Len(s_out)

\* C5 (as claimed): Done is yielded only if the assembler processed message_stop.
C5_DoneOnlyAfterMessageStop ==
    (\E k \in 1..Len(s_out) : s_out[k].type = "Done") => s_complete

\* C7: a FileWrite or FileEdit validate_input on an existing target accepts
\* only with a ledger entry for the path that is not older than the file's
\* mtime; without an entry it rejects, and with an older entry it rejects;
\* when the input reaches the ledger check (absolute path, and for FileEdit
\* old_string non-empty, different from new_string, target not a notebook)
\* the message is "not read yet", respectively "modified since read".
C7_ReadBeforeWrite ==
    (/\ last_val # None
     /\ last_val[1].tool \in {"FileWrite", "FileEdit"}
     /\ FileAt(fs, last_val[1].input.file_path).exists)
    => LET v == last_val[1]
           p == v.input.file_path
           mtime == FileAt(fs, p).mtime
           gate == /\ is_absolute(p)
                   /\ v.tool = "FileEdit" =>
                         /\ v.input.old_string # v.input.new_string
                         /\ v.input.old_string # <<>>
                         /\ extension(p) # Some(<<"i", "p", "y", "n", "b">>)
       IN  /\ v.result.result => (p \in DOMAIN ledger /\ ledger[p] >= mtime)
           /\ p \notin DOMAIN ledger =>
                 /\ ~v.result.result
                 /\ gate => v.result.message = Some(MsgNotRead)
           /\ (p \in DOMAIN ledger /\ ledger[p] < mtime) =>
                 /\ ~v.result.result
                 /\ gate => v.result.message = Some(MsgModified)

\* an edit of a file rewritten after time 0 is accepted with an up-to-date entry
C7_Witness ==
    /\ last_val # None
    /\ last_val[1].tool = "FileEdit"
    /\ last_val[1].result.result
    /\ FileAt(fs, last_val[1].input.file_path).exists
    /\ FileAt(fs, last_val[1].input.file_path).mtime > 0
    /\ last_val[1].input.file_path \in DOMAIN ledger
    /\ ledger[last_val[1].input.file_path] = FileAt(fs, last_val[1].input.file_path).mtime

\* C8 (as claimed): a FileWrite or FileEdit validated right after a successful
\* FileRead call of the same path through the same context passes the
\* read-before-write check.
C8_ReadThenWritePasses ==
    (/\ last_val # None
     /\ last_val[1].tool \in {"FileWrite", "FileEdit"}
     /\ last_val[1].after_read)
    => last_val[1].result.message \notin {Some(MsgNotRead), Some(MsgModified)}

\* C9 (as claimed): after a successful FileWrite or FileEdit call (of a
\* validated input) the ledger of the context the caller keeps holds the
\* file's new modification time.
C9_LedgerHoldsNewMtime ==
    (/\ last_call # None
     /\ last_call[1].tool \in {"FileWrite", "FileEdit"}
     /\ last_call[1].validated
     /\ last_call[1].ok)
    => /\ last_call[1].input.file_path \in DOMAIN ledger
       /\ ledger[last_call[1].input.file_path]
              = FileAt(fs, last_call[1].input.file_path).mtime

\* C10 (as claimed): call runs only for an input whose validate_input just
\* returned success.
C10_CallOnlyAfterValidation ==
    last_call # None => last_call[1].validated

\* C11 (as claimed): two invocations of tools that are not concurrency-safe
\* (Bash, FileEdit, FileWrite) are never in progress at the same time: a call
\* starts only after the stream of the previous one has ended.
C11_UnsafeToolsSerialized ==
    \A j \in Slots : \A k \in Slots \ {j} :
        ~(/\ running[j].pc \in {"call", "stream"}
          /\ running[k].pc \in {"call", "stream"}
          /\ ~is_concurrency_safe(running[j].tool)
          /\ ~is_concurrency_safe(running[k].tool))

C13_UniqueMatch ==
    (/\ last_val # None
     /\ last_call = None
     /\ last_val[1].tool = "FileEdit"
     /\ last_val[1].input.file_path = TextPath
     /\ last_val[1].input.old_string # <<>>
     /\ last_val[1].input.old_string # last_val[1].input.new_string
     /\ fs[TextPath].exists
     /\ fs[TextPath].utf8)
    => LET v == last_val[1]
           s == fs[TextPath].content
           pat == v.input.old_string
           n == Cardinality({i \in 1..(Len(s) - Len(pat) + 1) :
                                SubSeq(s, i, i + Len(pat) - 1) = pat})
       IN  /\ v.result.result <=> n = 1
           /\ n = 0 => v.result.message \in {Some(MsgNotFound), Some(MsgMultiple(0))}
           /\ n > 1 => v.result.message = Some(MsgMultiple(n))

\* C14 (as claimed): a validated FileEdit whose call succeeded left the file
\* with a content different from the one it had before the call.
C14_EditChangesFile ==
    (/\ last_call # None
     /\ last_call[1].tool = "FileEdit"
     /\ last_call[1].ok
     /\ last_call[1].before.exists)
    => FileAt(fs, last_call[1].input.file_path).content # last_call[1].before.content

\* C15 (as claimed): after a successful FileEdit or FileWrite on a file that
\* used CRLF every LF of the file is preceded by exactly one CR, and on a file
\* that used LF no LF is preceded by a CR.
C15_LineEndingPreserved ==
    (/\ last_call # None
     /\ last_call[1].ok
     /\ last_call[1].before.exists
     /\ last_call[1].before.utf8)
    => LET c == FileAt(fs, last_call[1].input.file_path).content
           old == last_call[1].before.content
       IN  IF contains(old, CRLF)
           THEN \A i \in 1..Len(c) :
                    c[i] = "\n" => /\ i > 1
                                   /\ c[i - 1] = "\r"
                                   /\ i > 2 => c[i - 2] # "\r"
           ELSE IF contains(old, LF)
           THEN \A i \in 1..Len(c) : c[i] = "\n" => (i = 1 \/ c[i - 1] # "\r")
           ELSE TRUE

\* C16 (as claimed): a FileEdit with empty old_string (absolute path, non-empty
\* new_string) is accepted exactly when the target does not exist, and its
\* call then leaves a file whose content is new_string.
C16_CreateNewFile ==
    /\ (/\ last_val # None
        /\ last_call = None
        /\ last_val[1].tool = "FileEdit"
        /\ last_val[1].input.file_path = TextPath
        /\ last_val[1].input.old_string = <<>>
        /\ last_val[1].input.new_string # <<>>)
       => (last_val[1].result.result <=> ~fs[TextPath].exists)
    /\ (/\ last_call # None
        /\ last_call[1].tool = "FileEdit"
        /\ last_call[1].input.old_string = <<>>
        /\ last_call[1].ok)
       => /\ FileAt(fs, last_call[1].input.file_path).exists
          /\ FileAt(fs, last_call[1].input.file_path).content
                 = last_call[1].input.new_string

\* C17 (as claimed): a FileWrite to a non-existent absolute target passes
\* validation and, the file system permitting, succeeds; a successful
\* FileWrite reports "create" exactly when the target did not exist before
\* the call and "update" exactly when it did.
C17_WriteCreateOrUpdate ==
    /\ (/\ last_val # None
        /\ last_call = None
        /\ last_val[1].tool = "FileWrite"
        /\ last_val[1].input.file_path = TextPath
        /\ ~fs[TextPath].exists)
       => last_val[1].result.result
    /\ (last_call # None /\ last_call[1].tool = "FileWrite")
       => /\ (~last_call[1].before.exists /\ last_call[1].io_ok) => last_call[1].ok
          /\ last_call[1].ok =>
                /\ last_call[1].operation_type = "create" <=> ~last_call[1].before.exists
                /\ last_call[1].operation_type = "update" <=> last_call[1].before.exists

\* C18 (as claimed): validate_input rejects every command whose leading
\* token (after leading whitespace, ended by whitespace, a pipe or a sequence
\* operator) is in the deny-list whatever its case, and every input whose
\* timeout exceeds the ceiling; and a subprocess exists only for a command
\* that is not to be rejected.
C18_DenyListNoSpawn ==
    LET whitespace == {" ", "\t", "\n", "\r"}
        operators == {"|", "&", ";"}
        leading_banned(cmd) ==
            \E i \in 1..Len(cmd) : \E j \in i..Len(cmd) :
                /\ \A k \in 1..(i - 1) : cmd[k] \in whitespace
                /\ to_lowercase(SubSeq(cmd, i, j)) \in BANNED_COMMANDS
                /\ j = Len(cmd) \/ cmd[j + 1] \in whitespace \cup operators
        rejected(input) ==
            \/ leading_banned(input.command)
            \/ input.timeout # None /\ input.timeout[1] > MAX_TIMEOUT_MS
    IN  /\ (bash.validated # None /\ rejected(bash.validated[1].input))
              => ~bash.validated[1].result.result
        /\ bash.child # None => ~rejected(bash.input[1])

\* C19 (as claimed): a call whose subprocess keeps its pipes open and never
\* exits on its own ends, and its stream holds a Result with interrupted = true.
C19_TimeoutInterrupts ==
    (bash.child # None /\ ~bash.child[1].on_its_own)
        ~> (bash.pc = "done" /\ bash.result = Some([type |-> "Result", interrupted |-> TRUE]))

\* C20 (as claimed): validate_input of MemoryRead and MemoryWrite rejects a
\* file_path that contains ".." or starts with '/', and the path a validated
\* call reads or writes lies inside the directory of the agent, which lies
\* inside <home>/.kode/memory/agents.
C20_MemoryPathConfined ==
    LET agents == HomeDir \o <<<<".", "k", "o", "d", "e">>, <<"m", "e", "m", "o", "r", "y">>, <<"a", "g", "e", "n", "t", "s">>>>
    IN  /\ (/\ mem.validated # None
            /\ mem.validated[1].input.file_path # None
            /\ \/ contains(mem.validated[1].input.file_path[1], <<".", ".">>)
               \/ starts_with(mem.validated[1].input.file_path[1], <<"/">>))
           => ~mem.validated[1].result.result
        /\ (mem.called # None /\ mem.called[1].accessed # None)
           => /\ starts_with(mem.called[1].accessed[1], agents)
              /\ mem.agent_id # None =>
                    \E dir \in {agents \o components(mem.agent_id[1])} :
                        starts_with(mem.called[1].accessed[1], dir)

\* C21 (as claimed): once process_chunk has returned Ok(true), feeding a
\* further chunk leaves the content blocks, which get_current_content() and
\* get_message() return, as they were.
C21_ImmutableOnceComplete ==
    [][a_ret = "ok_true" =>
          get_current_content(handler') = get_current_content(handler)]_vars

C23_BlocksInArrivalOrder ==
    (obs.msg # None /\ obs.msg[1] # None) =>
        LET content == obs.msg[1][1]
        IN  IF obs.dialect = "A"
            THEN \A i \in DOMAIN obs.started :
                    Len(content) > i /\ content[i + 1].type = obs.started[i]
            ELSE \A k \in 1..Len(obs.arrival) : \A l \in (k + 1)..Len(obs.arrival) :
                    \E p \in 1..Len(content) : \E q \in (p + 1)..Len(content) :
                        content[p].type = obs.arrival[k] /\ content[q].type = obs.arrival[l]

\* C24 (as claimed): after message_delta events, stop_reason, stop_sequence
\* and output_tokens are those the most recent message_delta carried, and
\* input_tokens is the one message_start seeded.
C24_MessageDeltaOverwrites ==
    (obs.dialect = "A" /\ obs.last_delta # None) =>
        LET last == obs.last_delta[1]
        IN  /\ handler.stop_reason = last.stop_reason
            /\ handler.stop_sequence = last.stop_sequence
            /\ (last.usage # None /\ last.usage[1] # None) =>
                  handler.usage.output_tokens = last.usage[1][1]
            /\ obs.seeded # None => handler.usage.input_tokens = obs.seeded[1]

\* C25: in dialect B, get_message() fails when the argument fragments received
\* for some tool index, concatenated in arrival order, are non-empty and do
\* not decode; otherwise the message holds one ToolUse per tool index, in
\* index order, whose input is the decoding of that concatenation, or the
\* empty object when the concatenation is empty.
C25_ToolArgumentsConcatenated ==
    (obs.dialect = "B" /\ obs.msg # None /\ obs.metadata) =>
        LET expected(i) == IF obs.args[i] = <<>> THEN Some(EmptyObject)
                           ELSE JsonDecode(obs.args[i])
            is_tool(b) == b.type = "tool_use"
            rank(i) == Cardinality({j \in DOMAIN obs.args : j <= i})
        IN  IF \E i \in DOMAIN obs.args : expected(i) = None
            THEN obs.msg[1] = None
            ELSE /\ obs.msg[1] # None
                 /\ LET tools == SelectSeq(obs.msg[1][1], is_tool)
                    IN  /\ Len(tools) = Cardinality(DOMAIN obs.args)
                        /\ \A i \in DOMAIN obs.args :
                              tools[rank(i)].input = expected(i)[1]

C25_Witness ==
    /\ obs.dialect = "B"
    /\ 0 \in DOMAIN obs.args
    /\ obs.args[0] = <<" ", "1">>
    /\ obs.msg # None
    /\ obs.msg[1] # None
    /\ \E k \in 1..Len(obs.msg[1][1]) : obs.msg[1][1][k].input = JsonNumber(1)

\* C26: comment lines and lines whose field name is none of event, data,
\* id, retry are inert: the text with such lines inserted at line boundaries
\* yields the same sequence of events as the original text (the parser has no
\* error result at all).
C26_InertLines ==
    (ins # <<>> /\ ins.events # None) => ins.events = ins.base

\* an inert line was inserted inside a record that the parser then returned
C26_Witness ==
    /\ ins # <<>> /\ ins.inserted >= 1 /\ ins.inside
    /\ ins.events # None /\ ins.events[1] # <<>>
    /\ ins.events = ins.base

\* C27 (as claimed): once parse_chunk has consumed a text, flush() returns
\* the record left open (the one a terminating blank line would have ended,
\* the unterminated final line included) when its data is non-empty, a second
\* flush() returns nothing, and input that follows yields the events a fresh
\* parser yields for it.
C27_FlushReturnsDanglingRecord ==
    (fl # <<>> /\ fl.flushes # <<>>) =>
        LET consumed == parse_chunk(SseParserNew, fl.text).events
            terminated == parse_chunk(SseParserNew, fl.text \o <<"\n", "\n">>).events
        IN  /\ Len(terminated) > Len(consumed) =>
                  fl.flushes[1] = Some(terminated[Len(consumed) + 1])
            /\ Len(fl.flushes) >= 2 => fl.flushes[2] = None
            /\ fl.later # None =>
                  fl.later[1].events = parse_chunk(SseParserNew, fl.later[1].input).events

\* C28 (as claimed): the output of a Glob or Grep search holds at most 100
\* file names, and its truncation flag is true exactly when more files matched
\* than the output holds.
C28_SearchResultsCapped ==
    (search # <<>> /\ search.called # None /\ search.called[1].ok) =>
        LET output == search.called[1].output
            flag == "truncated" \in DOMAIN output /\ output.truncated
        IN  /\ Len(output.filenames) <= Glob_MAX_RESULTS
            /\ flag = (search.matched > Len(output.filenames))

\* C29 (as claimed): create() returns an adapter only for a provider tag
\* with an implementation of its own, so the adapter built from a profile
\* that names no endpoint addresses the default endpoint of that tag, and it
\* returns UnsupportedProvider for every tag the factory has no adapter for.
C29_NoSilentFallback ==
    (factory # <<>> /\ factory.result # None) =>
        LET r == factory.result[1]
            provider == factory.profile.provider
        IN  /\ (r.ok /\ factory.profile.base_url = None) =>
                  default_base_url(provider) = Some(r.adapter.base_url)
            /\ provider \notin {"Anthropic", "OpenAI", "CustomOpenAI", "Azure", "Custom",
                                "Ollama", "Groq"} =>
                  (~r.ok /\ r.error = "UnsupportedProvider")

\* C30 (as claimed): of two calls of the same adapter operation, one failing
\* because of the transport and one failing because the payload is malformed,
\* the errors returned are of different kinds.
C30_TransportVsMalformed ==
    (/\ net # <<>> /\ net.first_result # None /\ net.second_result # None
     /\ FailureCause(net.first) = "transport" /\ FailureCause(net.second) = "malformed"
     /\ ~(net.adapter = "openai" /\ net.call = "stream_complete")) =>
        /\ ~net.first_result[1].ok /\ ~net.second_result[1].ok
        /\ net.first_result[1].error # net.second_result[1].error

\* C31 (as claimed): for a file of n lines, an offset o >= 1 and a limit
\* l >= 1, FileRead returns the lines o .. min(o + l - 1, n) in order with
\* start_line = o and total_lines = n, and an empty selection when o > n.
C31_LineWindow ==
    (/\ rd # <<>> /\ rd.outcome # None
     /\ rd.input.offset # None /\ rd.input.offset[1] >= 1
     /\ rd.input.limit # None /\ rd.input.limit[1] >= 1) =>
        LET o == rd.input.offset[1]
            l == rd.input.limit[1]
            ls == str_lines(rd.content)
            n == Len(ls)
            last == IF o + l - 1 < n THEN o + l - 1 ELSE n
            r == rd.outcome[1]
        IN  /\ r.kind = "ok"
            /\ r.file.content = join_lines(SubSeq(ls, o, last))
            /\ r.file.num_lines = (IF o > n THEN 0 ELSE last - o + 1)
            /\ r.file.start_line = o
            /\ r.file.total_lines = n

C33_BothStreamsCaptured ==
    sub # <<>> =>
        /\ sub.pc # "done" => ENABLED SubStep
        /\ sub.pc = "done" =>
               /\ sub.stdout_lines_vec = written_to(sub.program, "stdout", 1)
               /\ sub.stderr_lines_vec = written_to(sub.program, "stderr", 1)

\* C34: the items the Anthropic adapter's stream has produced when it ends
\* are those it produces for the same body delivered in one chunk, however
\* the transport split the body.
C34_ChunkingIndependent ==
    (wire # <<>> /\ wire.pc = "done" /\ wire.pos = Len(wire.body)) =>
        wire.out = process_stream_whole(wire.body)

\* C35: a blank line ends the current record whether or not an event is
\* emitted, so every emitted event carries the event, id and retry fields only
\* of the lines received since the previous blank line: the events emitted
\* are those of a parser that starts a fresh record at every blank line.
RECURSIVE RecordEvents(_, _, _)
RecordEvents(text, cur, events) ==
    LET line_end == Find(text, "\n")
    IN  IF line_end = 0 THEN events
        ELSE LET line == trim_end_matches(SubSeq(text, 1, line_end - 1), "\r")
                 rest == SubSeq(text, line_end + 1, Len(text))
                 r == process_line(cur, line)
             IN  RecordEvents(rest,
                              IF line = <<>> THEN SseEventNew ELSE r.current_event,
                              events \o r.out)

C35_BlankLineEndsRecord ==
    sse_events = RecordEvents(SubSeq(sse_text, 1, sse_pos), SseEventNew, <<>>)

\* C36: when the dialect A handler reports the stream complete (here on a
\* chunk that holds message_stop alone), every ToolUse block that was started
\* and whose content_block_stop has not arrived has as input the decoding of
\* the argument fragments received for its index.
C36_CompleteMeansDecoded ==
    [][(a_ret' = "ok_true" /\ a_fed' = a_fed + 1) =>
          \A i \in Indices :
              (a_hist[i].tracked /\ JsonDecode(a_hist[i].text) # None) =>
                  /\ Len(handler'.content_blocks) > i
                  /\ handler'.content_blocks[i + 1].type = "tool_use"
                  /\ Some(handler'.content_blocks[i + 1].input) = JsonDecode(a_hist[i].text)]_vars

\* C37: a lookup returns the content most recently stored for the URL iff it
\* was stored no longer ago than CACHE_DURATION, and clean_expired() removes
\* exactly the entries a lookup at the same instant treats as expired.
C37_OneExpiry ==
    cache # <<>> =>
        /\ cache.last.op = "get" =>
               LET url == cache.last.url
               IN  cache.last.result =
                       IF url \in DOMAIN cache.stored
                          /\ cache.now - cache.stored[url].at <= CACHE_DURATION
                       THEN Some(cache.stored[url].content)
                       ELSE None
        /\ cache.last.op = "clean" =>
               DOMAIN cache.last.before \ DOMAIN cache.entries =
                   {u \in DOMAIN cache.last.before :
                       UrlCache_get(cache.last.before, u, cache.now) = None}

\* C38: is_loading is true only while a response stream started by the app
\* is in flight; it is false after stream_complete returned an error in
\* start_streaming.
C38_LoadingMeansInFlight ==
    (app # <<>> /\ app.is_loading) => \E k \in 1..Len(app.tasks) : InFlight(k)

\* C39: a chunk of a response stream is applied only to the assistant message
\* created by the submit that started that stream; after cancel_stream or
\* another submit a chunk of the earlier stream modifies no message, and the
\* StreamComplete of the earlier stream does not clear the loading state of
\* the later one.
C39_ChunksBelongToTheirSubmit ==
    app # <<>> =>
        /\ (app.last.type = "StreamChunk" /\ app.last.modified) =>
               /\ app.last.target = app.last.stream
               /\ ~app.last.stale
        /\ (app.last.type = "StreamComplete" /\ app.last.superseded) => ~app.last.cleared

====
